---- MODULE Spec2Model ----
(***************************************************************************)
(* Model of the FreeSWITCH ESL log collector (src/logger.py):              *)
(*   - LogManager: the partitioned, rotating, FD-bounded file sink         *)
(*   - FreeSwitchLogCollector: the ingestion loop (connect / backoff /     *)
(*     deduplicate / classify / write)                                     *)
(*   - MetricsCollector: the counters                                      *)
(* Strings are sequences of one-character strings, so that normalisation   *)
(* of a domain is computed, not assumed.  A file is the sequence of the    *)
(* line records appended to it; a line record carries the text of the line *)
(* (an identifier) and its size in bytes.                                  *)
(***************************************************************************)
EXTENDS Integers, Sequences, FiniteSets, TLC

(***************************************************************************)
(* Bounds of the model and scaled configuration values                     *)
(***************************************************************************)
\* number of calls of the sink (write_log, flush_buffers, close_all) explored
MaxCalls == 3
\* the same, for the specification that explores longer call sequences
MaxDeepCalls == 5
\* number of I/O operations (stat, rename, open, write) the environment lets fail
MaxFaults == 1
\* last clock second explored (rotated files are named by the second)
MaxSec == 1
\* number of sink calls made by the concurrent callers
MaxConcCalls == 4
\* number of events the event source delivers in the runs with a stop signal
MaxStopEvents == 1
\* events fed to process_event in the runs with a handle cap of one
MaxFeed == 3
\* calls of extract_domain for one event and line
MaxClassify == 2
\* number of events the event source delivers
MaxEvents == 2
\* number of events the event source delivers in the longer runs
MaxDeepEvents == 4
\* number of events the event source delivers in the runs checked for liveness
MaxLiveEvents == 1
\* maxlen of recent_event_ids (10000 in the code), scaled
DedupWindow == 2
\* max_connection_attempts
max_connection_attempts == 5
\* MAX_FILE_DESCRIPTORS (environment, default 50), scaled
MAX_FILE_DESCRIPTORS == 2
\* FILE_ROTATION_SIZE (environment, default 100 MiB), scaled
rotation_size == 3

\* number of calls made by the caller that fills the buffers
MaxBuffer == 3

\* number of record_ calls of the main thread, and of get_metrics calls of the
\* reporter
MaxMeterCalls == 3

MaxSnaps == 2

\* the formatted lines handed to the sink: a short one, and one that alone
\* exceeds the rotation threshold
Lines == { [id |-> 1, sz |-> 1], [id |-> 2, sz |-> rotation_size + 1] }

(***************************************************************************)
(* Strings                                                                 *)
(***************************************************************************)
Unknown == <<"u", "n", "k", "n", "o", "w", "n">>
FsCli == <<"f", "s", "_", "c", "l", "i">>

\* str.lower() on one character
LowerChar(c) ==
    IF c = "A" THEN "a" ELSE IF c = "B" THEN "b" ELSE IF c = "C" THEN "c"
    ELSE IF c = "D" THEN "d" ELSE c

\* str.lower()
Lower(s) == [i \in 1..Len(s) |-> LowerChar(s[i])]

IsSpace(c) == c \in {" ", "\t", "\n"}

\* str.strip()
RECURSIVE Strip(_)
Strip(s) ==
    IF s = <<>> THEN s
    ELSE IF IsSpace(Head(s)) THEN Strip(Tail(s))
    ELSE IF IsSpace(s[Len(s)]) THEN Strip(SubSeq(s, 1, Len(s) - 1))
    ELSE s

\* the character class of re.sub(r'[<>:"/\\|?*\s]', '', domain)
IllegalChar(c) == c \in {"<", ">", ":", "\"", "/", "\\", "|", "?", "*"} \/ IsSpace(c)

KeepChar(c) == ~IllegalChar(c)

\* the domain normalisation of write_log and _write_to_file
NormalizeDomain(domain) ==
    LET d1 == IF domain = <<>> THEN Unknown ELSE Strip(Lower(domain))
        d2 == SelectSeq(d1, KeepChar)
    IN  IF d2 = <<>> THEN Unknown ELSE d2

\* the raw partition names handed to write_log by a caller of the sink
RawDomains ==
    { <<"a">>, <<"A", " ">>, <<"b">>, <<":">> }

\* the tenants of the events fed directly to process_event
Acom == <<"a", ".", "c", "o", "m">>
Bcom == <<"b", ".", "c", "o", "m">>

\* the partition keys (file names) that can occur
Keys == { NormalizeDomain(d) : d \in RawDomains } \cup {FsCli, Acom, Bcom}

(***************************************************************************)
(* State                                                                   *)
(***************************************************************************)
VARIABLES
    file_handles,   \* LogManager.file_handles: the keys that have an open handle
    file_sizes,     \* LogManager.file_sizes: key -> tracked byte count
    file_access,    \* LogManager.file_access: key -> last access time (partial)
    buffers,        \* LogManager.buffers: key -> buffered entries
    lm_running,     \* LogManager.running
    live,           \* the file system: existing <key>.log files and their content
    rotated,        \* the file system: existing <key>_<second>.log files
    clock,          \* time.time(), as the number of readings so far
    sec,            \* the wall clock second at its last reading (names of rotated files)
    metrics,        \* MetricsCollector counters
    calls,          \* number of calls of the sink made so far
    faults,         \* number of I/O operations that failed so far
    last,           \* what the last call of the sink did (history)
    running,        \* FreeSwitchLogCollector.running
    connection,     \* FreeSwitchLogCollector.connection: "None" or "obj"
    connected,      \* what connection.connected() reports
    source_up,      \* the event source accepts connections (environment)
    connection_attempts,  \* FreeSwitchLogCollector.connection_attempts
    recent_event_ids,     \* FreeSwitchLogCollector.recent_event_ids
    pc,             \* where the main thread is in run()
    nevents,        \* number of events received so far
    received,       \* the keys of the last DedupWindow events received (history)
    accepted,       \* the keys of the last DedupWindow events that had a key and
                    \* were not dropped as duplicates (history)
    lastev,         \* what process_event did with the last event (history)
    lock,           \* LogManager.lock: "free" or the thread that holds it
    threads,        \* where each concurrent caller of the sink is, and its arguments
    order,          \* per partition, the write calls in the order they got the lock
                    \* (history)
    hpc,            \* where _signal_handler is, "none" before the signal
    mlock,          \* MetricsCollector.lock: "free" or who holds it
    rpc,             \* where the metrics reporter thread is
    cap,            \* MAX_FILE_DESCRIPTORS as read from the environment at start
    fed,            \* history: the events handed to process_event, in order
    cevent,         \* the event handed to extract_domain: its headers, and the
                    \* names of the headers whose access raises
    cline,          \* the rendered line handed to extract_domain
    ckeys,          \* history: the keys extract_domain returned for them
    subscription,   \* the events the connection is subscribed to: "log", "plain"
                    \* or "none"
    lastrecv,       \* history: how the last recvEventTimed call since the last
                    \* connect() ended
    due,            \* time.time() - last_flush >= BUFFER_FLUSH_INTERVAL
    mcall,          \* the MetricsCollector call the main thread is in, and where
    snap,           \* the get_metrics call of the reporter: where it is, what it
                    \* has read, and the counter values current during the call
    issued          \* history: the calls of each record_ method made so far

sinkVars == <<file_handles, file_sizes, file_access, buffers, lm_running,
              live, rotated, clock, sec, metrics, calls, faults, last>>

loopVars == <<running, connection, connected, source_up, connection_attempts,
              recent_event_ids, pc, nevents, received, accepted, lastev>>

concVars == <<lock, threads, order>>

stopVars == <<hpc, mlock, rpc>>

feedVars == <<cap, fed>>

classVars == <<cevent, cline, ckeys>>

connVars == <<subscription, lastrecv, due>>

meterVars == <<mcall, snap, issued>>

vars == <<sinkVars, loopVars, concVars, stopVars, feedVars, classVars, connVars, meterVars>>

\* size in bytes of a content (a sequence of line records)
RECURSIVE Size(_)
Size(content) ==
    IF content = <<>> THEN 0 ELSE Head(content).sz + Size(Tail(content))

\* the kinds of I/O failure the environment can inject into one call
FailureKinds == {"stat", "rename", "open", "write"}

\* the sink as one value: what the helper methods of LogManager read and write
SinkState ==
    [ file_handles |-> file_handles, file_sizes |-> file_sizes,
      file_access |-> file_access, live |-> live, rotated |-> rotated,
      clock |-> clock, sec |-> sec, metrics |-> metrics,
      did_rename |-> FALSE, raised |-> FALSE, failed |-> FALSE, io_errors |-> {},
      opened |-> FALSE, leaked |-> FALSE ]

\* dict without a key
Without(f, k) == [x \in (DOMAIN f) \ {k} |-> f[x]]

\* dict with a key set
With(f, k, v) == [x \in (DOMAIN f) \cup {k} |-> IF x = k THEN v ELSE f[x]]

(***************************************************************************)
(* MetricsCollector                                                        *)
(***************************************************************************)
record_write(m, size) ==
    [m EXCEPT !.logs_written = @ + 1, !.bytes_written = @ + size]

record_error(m) == [m EXCEPT !.errors_count = @ + 1]

record_domain(m, count) == [m EXCEPT !.domains_count = count]

record_event(m) == [m EXCEPT !.events_processed = @ + 1]

\* a rotation whose failed rename aborts the write
Mut_rotate_log_raises(s, domain, fails, now) ==
    LET s1 == [s EXCEPT !.file_handles = @ \ {domain}]
    IN  IF "rename" \in fails
        THEN [s1 EXCEPT !.raised = TRUE, !.io_errors = @ \cup {"rename"}]
        ELSE [s1 EXCEPT !.rotated = With(@, <<domain, now>>, s1.live[domain]),
                        !.live = Without(@, domain),
                        !.did_rename = TRUE,
                        !.file_sizes[domain] = 0, !.sec = now]

(***************************************************************************)
(* LogManager                                                              *)
(***************************************************************************)
\* _rotate_log with the live file copied instead of renamed: the old content
\* stays in the live file
Mut_rotate_log_copies(s, domain, fails, now) ==
    LET s1 == [s EXCEPT !.file_handles = @ \ {domain}]
        s2 == IF "rename" \in fails
              THEN [s1 EXCEPT !.io_errors = @ \cup {"rename"}]
              ELSE [s1 EXCEPT !.rotated = With(@, <<domain, now>>, s1.live[domain]),
                              !.did_rename = TRUE]
    IN  [s2 EXCEPT !.file_sizes[domain] = 0, !.sec = now]

\* _rotate_log: close and forget the handle, rename the live file to
\* <key>_<second>.log (replacing a file of that name), reset the tracked size;
\* now is the second the wall clock shows when the name is built
_rotate_log(s, domain, fails, now) ==
    LET s1 == [s EXCEPT !.file_handles = @ \ {domain}]
        s2 == IF "rename" \in fails
              THEN [s1 EXCEPT !.io_errors = @ \cup {"rename"}]
              ELSE [s1 EXCEPT !.rotated = With(@, <<domain, now>>, s1.live[domain]),
                              !.live = Without(@, domain),
                              !.did_rename = TRUE]
    IN  [s2 EXCEPT !.file_sizes[domain] = 0, !.sec = now]

\* min(self.file_access.keys(), key=...): the key with the oldest access time
OldestDomain(fa) ==
    CHOOSE d \in DOMAIN fa : \A e \in DOMAIN fa : fa[d] <= fa[e]

\* an eviction that closes nothing
Mut_close_oldest_file_keeps(s) == s

\* _close_oldest_file
_close_oldest_file(s) ==
    IF s.file_handles = {} THEN s
    ELSE IF DOMAIN s.file_access = {} THEN s   \* min() of nothing raises; caught
    ELSE LET oldest_domain == OldestDomain(s.file_access)
         IN  [s EXCEPT !.file_handles = @ \ {oldest_domain},
                       !.file_access = Without(@, oldest_domain)]

\* an I/O operation of _write_to_file raises: the rest of the try block is skipped
Raise(s, kind) == [s EXCEPT !.raised = TRUE, !.io_errors = @ \cup {kind}]

\* "Rotate if needed" with the comparison > in place of >=
Mut_RotateIfNeeded_gt(s, domain, bytes, fails, now) ==
    IF domain \notin DOMAIN s.live THEN s
    ELSE IF Size(s.live[domain]) + bytes > rotation_size
         THEN [s EXCEPT !.file_handles = @ \ {domain},
                        !.rotated = With(@, <<domain, now>>, s.live[domain]),
                        !.live = Without(@, domain),
                        !.did_rename = TRUE,
                        !.file_sizes[domain] = 0,
                        !.sec = now]
         ELSE s

\* _write_to_file, "Rotate if needed": the size is the one stat reports, or the
\* tracked one when stat fails
RotateIfNeeded(s, domain, bytes, fails, now) ==
    IF domain \notin DOMAIN s.live THEN s
    ELSE LET stat_fails == "stat" \in fails
             current_size == IF stat_fails THEN s.file_sizes[domain]
                             ELSE Size(s.live[domain])
             s0 == IF stat_fails THEN [s EXCEPT !.io_errors = @ \cup {"stat"}] ELSE s
         IN  IF current_size + bytes >= rotation_size
             THEN _rotate_log(s0, domain, fails, now)
             ELSE s0

\* _write_to_file, "Enforce file descriptor limit"
EnforceLimit(s, domain) ==
    IF Cardinality(s.file_handles) >= cap /\ domain \notin s.file_handles
    THEN _close_oldest_file(s)
    ELSE s

\* an open for every write
Mut_NeedsOpen_always(s, domain) == TRUE

\* _write_to_file: "domain not in self.file_handles or
\* self.file_handles[domain].closed"; every close removes the handle from
\* file_handles, so that a handle found there is never closed
NeedsOpen(s, domain) == domain \notin s.file_handles

\* _write_to_file, "Open file if necessary": open(log_file, 'a') creates a missing
\* file; the tracked size becomes the one stat reports, or 0 when stat fails
OpenIfNecessary(s, domain, fails) ==
    IF ~NeedsOpen(s, domain) THEN s
    ELSE IF "open" \in fails THEN Raise(s, "open")
    ELSE LET file0 == IF domain \in DOMAIN s.live THEN s.live[domain] ELSE <<>>
             stat_fails == "stat" \in fails
         IN  [s EXCEPT !.file_handles = @ \cup {domain},
                       !.live = With(@, domain, file0),
                       !.file_sizes[domain] = IF stat_fails THEN 0 ELSE Size(file0),
                       !.io_errors = IF stat_fails THEN @ \cup {"stat"} ELSE @,
                       !.opened = TRUE,
                       !.leaked = @ \/ domain \in s.file_handles]

\* _write_to_file, f.write and f.flush, then the bookkeeping
WriteContent(s, domain, content, fails) ==
    IF s.raised THEN s
    ELSE IF "write" \in fails THEN Raise(s, "write")
    ELSE [s EXCEPT !.live[domain] = @ \o content,
                   !.file_sizes[domain] = @ + Size(content),
                   !.file_access = With(@, domain, s.clock),
                   !.clock = @ + 1,
                   !.metrics = record_write(@, Size(content))]

\* the except branch without the clean-up of the broken handle
Mut_Except_keeps_handle(s, domain) ==
    IF s.raised
    THEN [s EXCEPT !.metrics = record_error(@), !.failed = TRUE, !.raised = FALSE]
    ELSE s

\* the except branch of _write_to_file: count the error, drop the broken handle
Except(s, domain) ==
    IF s.raised
    THEN [s EXCEPT !.metrics = record_error(@),
                   !.file_handles = @ \ {domain},
                   !.failed = TRUE,
                   !.raised = FALSE]
    ELSE s

\* _write_to_file
_write_to_file(s, rawdomain, content, fails, now) ==
    LET domain == NormalizeDomain(rawdomain)
    IN  Except(
          WriteContent(
            OpenIfNecessary(
              EnforceLimit(
                RotateIfNeeded(s, domain, Size(content), fails, now),
                domain),
              domain, fails),
            domain, content, fails),
          domain)

\* the sink variables take the values of a sink state
Becomes(s) ==
    /\ file_handles' = s.file_handles
    /\ file_sizes' = s.file_sizes
    /\ file_access' = s.file_access
    /\ live' = s.live
    /\ rotated' = s.rotated
    /\ clock' = s.clock
    /\ sec' = s.sec
    /\ metrics' = s.metrics

\* write_log(domain, log_line) as a function of the sink: the domain is
\* normalised, the line formatted, and _write_to_file does the rest
WriteLog(s, rawdomain, line, fails, now) ==
    _write_to_file(s, NormalizeDomain(rawdomain), <<line>>, fails, now)

\* the history of a write_log call that took the sink from its state to s
LastWrite(s, rawdomain, line, prev) ==
    [op |-> "write", domain |-> NormalizeDomain(rawdomain),
     line |-> line, io_errors |-> s.io_errors, failed |-> s.failed,
     did_rename |-> s.did_rename, opened |-> s.opened, leaked |-> s.leaked,
     after_failure |-> /\ prev.op = "write"
                       /\ prev.failed
                       /\ prev.domain = NormalizeDomain(rawdomain)]

\* write_log(domain, log_line): one formatted line, written immediately
write_log(rawdomain, line, fails, now) ==
    /\ faults + Cardinality(fails) <= MaxFaults
    /\ LET s == WriteLog(SinkState, rawdomain, line, fails, now)
       IN  /\ Becomes(s)
           /\ faults' = faults + Cardinality(s.io_errors)
           /\ last' = LastWrite(s, rawdomain, line, last)
    /\ UNCHANGED <<buffers, lm_running>>

NoLine == [id |-> 0, sz |-> 0]

\* the history of a call that is not a write_log call
Last(op) ==
    [op |-> op, domain |-> <<>>, line |-> NoLine, io_errors |-> {}, failed |-> FALSE,
     did_rename |-> FALSE, opened |-> FALSE, leaked |-> FALSE, after_failure |-> FALSE]

\* the keys whose buffer holds entries, in the order flush_buffers visits them
RECURSIVE FlushAll(_, _, _, _)
FlushAll(s, todo, fails, now) ==
    IF todo = {} THEN s
    ELSE LET d == CHOOSE x \in todo : TRUE
         IN  FlushAll(_write_to_file(s, d, buffers[d], fails, now), todo \ {d}, fails, now)

\* flush_buffers: write every non-empty buffer, clear it, record the handle count
flush_buffers(fails, now) ==
    /\ LET s == FlushAll(SinkState, {d \in Keys : buffers[d] # <<>>}, fails, now)
           t == [s EXCEPT !.metrics = record_domain(@, Cardinality(s.file_handles))]
       IN  Becomes(t)
    /\ buffers' = [d \in Keys |-> <<>>]
    /\ last' = Last("flush")
    /\ UNCHANGED <<lm_running, faults>>

\* a clear() that forgets nothing
Mut_Cleared_keeps(d) == d

\* dict.clear()
Cleared(d) == << >>

\* close_all: running = False, flush_buffers, then close and forget every handle
close_all(fails, now) ==
    /\ lm_running' = FALSE
    /\ LET s == FlushAll(SinkState, {d \in Keys : buffers[d] # <<>>}, fails, now)
           t == [s EXCEPT !.metrics = record_domain(@, Cardinality(s.file_handles))]
       IN  /\ file_handles' = {}
           /\ file_access' = Cleared(t.file_access)
           /\ file_sizes' = t.file_sizes
           /\ live' = t.live
           /\ rotated' = t.rotated
           /\ clock' = t.clock
           /\ sec' = t.sec
           /\ metrics' = t.metrics
    /\ buffers' = [d \in Keys |-> <<>>]
    /\ last' = Last("close_all")
    /\ UNCHANGED faults

(***************************************************************************)
(* Events                                                                  *)
(***************************************************************************)
HEARTBEAT == <<"H", "E", "A", "R", "T", "B", "E", "A", "T">>
LOG == <<"L", "O", "G">>
CHANNEL_LOG == <<"C", "H", "A", "N", "N", "E", "L", "_", "L", "O", "G">>
DTMF == <<"D", "T", "M", "F">>

\* an event: its headers (an absent header is the empty string), and whether
\* getHeader raises; the line rendered from event number n has identifier n
Event(name, uid, domain, raises) ==
    [name |-> name, uid |-> uid, domain_name |-> domain, raises |-> raises]

\* the events the source can deliver: two channel events of two tenants, a
\* heartbeat, a LOG event without unique id, and an event whose headers
\* cannot be read
Events ==
    << Event(DTMF, <<"1">>, <<"a">>, FALSE),
       Event(DTMF, <<"2">>, <<"B">>, FALSE),
       Event(HEARTBEAT, <<>>, <<>>, FALSE),
       Event(LOG, <<>>, <<>>, FALSE),
       Event(<<>>, <<>>, <<>>, TRUE) >>

\* the events fed directly to process_event: channel events of the tenants
\* a.com and b.com with three unique ids
FeedEvents ==
    << Event(DTMF, <<"1">>, Acom, FALSE),
       Event(DTMF, <<"2">>, Acom, FALSE),
       Event(DTMF, <<"3">>, Acom, FALSE),
       Event(DTMF, <<"1">>, Bcom, FALSE),
       Event(DTMF, <<"2">>, Bcom, FALSE),
       Event(DTMF, <<"3">>, Bcom, FALSE) >>

\* log events as the subscription delivers them: the first two carry neither
\* Unique-ID nor Event-UUID, the third carries a Unique-ID, the fourth has
\* another name and no identifier; the last is a channel event whose
\* domain_name header is fs_cli
LogEvents ==
    << Event(LOG, <<>>, <<>>, FALSE),
       Event(LOG, <<>>, <<>>, FALSE),
       Event(LOG, <<"1">>, <<>>, FALSE),
       Event(DTMF, <<>>, <<>>, FALSE),
       Event(DTMF, <<"4">>, FsCli, FALSE) >>

\* every event of the model; event number n renders the line with identifier n
AllEvents == Events \o FeedEvents \o LogEvents

\* the numbers of the tenants' events and of the log events
TenantNumbers == (Len(Events) + 1)..(Len(Events) + Len(FeedEvents))
LogNumbers == (Len(Events) + Len(FeedEvents) + 1)..Len(AllEvents)

NoEvent == [n |-> 0, dropped |-> FALSE, wrote |-> FALSE, domain |-> <<>>]

\* str.upper()
UpperChar(c) ==
    IF c = "a" THEN "A" ELSE IF c = "b" THEN "B" ELSE IF c = "c" THEN "C"
    ELSE IF c = "d" THEN "D" ELSE IF c = "e" THEN "E" ELSE IF c = "f" THEN "F"
    ELSE IF c = "g" THEN "G" ELSE IF c = "h" THEN "H" ELSE IF c = "l" THEN "L"
    ELSE IF c = "m" THEN "M" ELSE IF c = "n" THEN "N" ELSE IF c = "o" THEN "O"
    ELSE IF c = "r" THEN "R" ELSE IF c = "t" THEN "T" ELSE c

Upper(s) == [i \in 1..Len(s) |-> UpperChar(s[i])]

(***************************************************************************)
(* LogManager.extract_domain, for events that carry domain_name            *)
(***************************************************************************)
LabelChar(c) ==
    c \in {"a", "b", "c", "d", "e", "f", "g", "h", "i", "j", "k", "l", "m", "n", "o",
           "p", "q", "r", "s", "t", "u", "v", "w", "x", "y", "z",
           "A", "B", "C", "D", "0", "1", "2", "3", "4", "5", "6", "7", "8", "9", "-", "_"}

Localhost == <<"l", "o", "c", "a", "l", "h", "o", "s", "t">>

Default == <<"d", "e", "f", "a", "u", "l", "t">>

\* _is_valid_domain
_is_valid_domain(domain0) ==
    IF domain0 = <<>> THEN FALSE
    ELSE LET domain == Lower(Strip(domain0))
             n == Len(domain)
         IN  IF domain = Localhost THEN TRUE
             ELSE IF n > 253 THEN FALSE
             ELSE IF \A i \in 1..n : domain[i] # "."
                  THEN \A i \in 1..n : LabelChar(domain[i])
             ELSE /\ \A i \in 1..n : domain[i] = "." \/ LabelChar(domain[i])
                  /\ domain[1] # "." /\ domain[n] # "."
                  /\ \A i \in 1..(n - 1) : ~(domain[i] = "." /\ domain[i + 1] = ".")
                  /\ \A i \in 1..(n - 63) : \E k \in i..(i + 63) : domain[k] = "."

(***************************************************************************)
(* LogManager.extract_domain: the whole chain, for an event given by its   *)
(* headers (an absent header is the empty string), the names of the        *)
(* headers whose access raises, and the rendered line                      *)
(***************************************************************************)
\* "pat in s"
Contains(s, pat) ==
    \E i \in 1..(Len(s) - Len(pat) + 1) : SubSeq(s, i, i + Len(pat) - 1) = pat

\* the part of s that starts at position i is pat
StartsAt(s, i, pat) ==
    i + Len(pat) - 1 <= Len(s) /\ SubSeq(s, i, i + Len(pat) - 1) = pat

AtSign == <<"@">>
SipColon == <<"s", "i", "p", ":">>
SofiaSlash == <<"s", "o", "f", "i", "a", "/">>

\* s.split('@', 1)[1].strip() for an s that holds an '@'
AfterAt(s) ==
    LET i == CHOOSE k \in 1..Len(s) : s[k] = "@" /\ \A m \in 1..(k - 1) : s[m] # "@"
    IN  Strip(SubSeq(s, i + 1, Len(s)))

\* the character classes of the regular expressions
DomainChar(c) == LabelChar(c) \/ c = "."
SipUserChar(c) == DomainChar(c) \/ c = "+"
ProfileChar(c) == LabelChar(c)
SofiaUserChar(c) == LabelChar(c) \/ c \in {"%", "+"}
NotAtGt(c) == c \notin {"@", ">"}
Letter(c) == LabelChar(c) /\ c \notin {"0", "1", "2", "3", "4", "5", "6", "7", "8", "9", "-", "_"}

\* the end of the longest run of characters of a class that starts at
\* position i (i - 1 when the run is empty): what a greedy repetition of the
\* class takes; in_class[k] says whether character k is in the class
RunEnd(in_class, i) ==
    CHOOSE j \in (i - 1)..Len(in_class) :
        /\ \A k \in i..j : in_class[k]
        /\ j = Len(in_class) \/ ~in_class[j + 1]

\* the first group of the leftmost match, <<>> when no position matches;
\* group_at[i] is the group of a match at position i, <<>> without one
Leftmost(group_at) ==
    IF \E i \in 1..Len(group_at) : group_at[i] # <<>>
    THEN group_at[CHOOSE i \in 1..Len(group_at) :
                     group_at[i] # <<>> /\ \A k \in 1..(i - 1) : group_at[k] = <<>>]
    ELSE <<>>

\* ([\w.-]+) at position i
DomainGroup(s, i) == SubSeq(s, i, RunEnd([k \in 1..Len(s) |-> DomainChar(s[k])], i))

\* sip:[\w.+-]*@([\w.-]+) at position i
SipMatchAt(s, i) ==
    IF ~StartsAt(s, i, SipColon) THEN <<>>
    ELSE LET u == RunEnd([k \in 1..Len(s) |-> SipUserChar(s[k])], i + 4)
         IN  IF u + 1 <= Len(s) /\ s[u + 1] = "@" THEN DomainGroup(s, u + 2) ELSE <<>>

\* _extract_sip_domain: re.search(r'sip:[\w.+-]*@([\w.-]+)', s), None as <<>>
_extract_sip_domain(s) ==
    Leftmost([i \in 1..Len(s) |-> SipMatchAt(s, i)])

\* sip:[^@>]+@([\w.-]+) at position i
SipLineMatchAt(s, i) ==
    IF ~StartsAt(s, i, SipColon) THEN <<>>
    ELSE LET u == RunEnd([k \in 1..Len(s) |-> NotAtGt(s[k])], i + 4)
         IN  IF u >= i + 4 /\ u + 1 <= Len(s) /\ s[u + 1] = "@"
             THEN DomainGroup(s, u + 2) ELSE <<>>

\* sofia/[\w-]+/(?:[\w%+\-]+@)?([\w.-]+) at position i: the optional user part
\* is tried first, and given up when no host name follows it
SofiaMatchAt(s, i) ==
    IF ~StartsAt(s, i, SofiaSlash) THEN <<>>
    ELSE LET p == RunEnd([k \in 1..Len(s) |-> ProfileChar(s[k])], i + 6)
         IN  IF ~(p >= i + 6 /\ p + 1 <= Len(s) /\ s[p + 1] = "/") THEN <<>>
             ELSE LET u == RunEnd([k \in 1..Len(s) |-> SofiaUserChar(s[k])], p + 2)
                      with_user == IF u >= p + 2 /\ u + 1 <= Len(s) /\ s[u + 1] = "@"
                                   THEN DomainGroup(s, u + 2) ELSE <<>>
                  IN  IF with_user # <<>> THEN with_user ELSE DomainGroup(s, p + 2)

\* @([\w.-]+) at position i
AtMatchAt(s, i) == IF s[i] = "@" THEN DomainGroup(s, i + 1) ELSE <<>>

\* \[([\w.-]+\.[a-zA-Z]{2,})\] at position i: the bracketed text ends in a
\* dot and two or more letters, after at least one more character
BracketMatchAt(s, i) ==
    IF s[i] # "[" THEN <<>>
    ELSE LET e == RunEnd([k \in 1..Len(s) |-> DomainChar(s[k])], i + 1)
             c == SubSeq(s, i + 1, e)
         IN  IF /\ e + 1 <= Len(s) /\ s[e + 1] = "]"
                /\ \E d \in 2..(Len(c) - 2) :
                      /\ c[d] = "."
                      /\ \A k \in (d + 1)..Len(c) : Letter(c[k])
             THEN c ELSE <<>>

\* patterns[n] searched in the line: the first group of the match
PatternGroup(n, s) ==
    IF n = 1 THEN Leftmost([i \in 1..Len(s) |-> SipLineMatchAt(s, i)])
    ELSE IF n = 2 THEN Leftmost([i \in 1..Len(s) |-> SofiaMatchAt(s, i)])
    ELSE IF n = 3 THEN Leftmost([i \in 1..Len(s) |-> AtMatchAt(s, i)])
    ELSE Leftmost([i \in 1..Len(s) |-> BracketMatchAt(s, i)])

header_candidates ==
    << "domain_name", "Caller-Domain", "Callee-Domain", "User-Domain", "Domain",
       "variable_domain_name", "variable_domain", "variable_user_domain",
       "variable_sip_from", "variable_sip_to", "variable_domain" >>

sip_headers == << "From", "To", "Channel-Name" >>

HeaderNames ==
    { header_candidates[i] : i \in 1..Len(header_candidates) }
        \cup {"Caller-ID-Number"} \cup { sip_headers[i] : i \in 1..Len(sip_headers) }

\* a header access that yields a value instead of failing
Mut_getHeader_yields(event, header) ==
    IF header \in event.bad THEN Localhost ELSE event.hdr[header]

\* try: val = event.getHeader(header) / except Exception: val = None
getHeader(event, header) ==
    IF header \in event.bad THEN <<>> ELSE event.hdr[header]

\* a clean-up that keeps the case
Mut_Sanitized_keeps_case(x) ==
    LET d == SelectSeq(x, KeepChar) IN IF d = <<>> THEN Unknown ELSE d

\* x.lower(), then re.sub(r'[<>:"/\\|?*\s]', '', x), then "or 'unknown'"
Sanitized(x) ==
    LET d == SelectSeq(Lower(x), KeepChar) IN IF d = <<>> THEN Unknown ELSE d

\* v.lower() == 'default'
IsDefault(v) == Lower(v) = Default

\* _extract_sip_domain(h) or (h.split('@', 1)[1].strip() if '@' in h else None)
SipDomainOf(h) ==
    IF _extract_sip_domain(h) # <<>> THEN _extract_sip_domain(h)
    ELSE IF Contains(h, AtSign) THEN AfterAt(h)
    ELSE <<>>

\* the body of the loop over header_candidates for one value: the key it
\* returns, <<>> when the loop goes on
FromCandidate(val) ==
    LET v == Strip(val)
    IN  IF v = <<>> \/ IsDefault(v) THEN <<>>
        ELSE IF /\ Contains(v, SipColon) \/ Contains(v, AtSign)
                /\ SipDomainOf(v) # <<>>
                /\ _is_valid_domain(SipDomainOf(v))
             THEN Sanitized(Strip(SipDomainOf(v)))
        ELSE IF _is_valid_domain(v) THEN Sanitized(Strip(v))
        ELSE <<>>

RECURSIVE FromCandidates(_, _)
FromCandidates(event, i) ==
    IF i > Len(header_candidates) THEN <<>>
    ELSE LET key == FromCandidate(getHeader(event, header_candidates[i]))
         IN  IF key # <<>> THEN key ELSE FromCandidates(event, i + 1)

\* "Try Caller-ID-Number (user@domain)"
FromCallerId(event) ==
    LET caller_id == getHeader(event, "Caller-ID-Number")
    IN  IF Contains(caller_id, AtSign) /\ _is_valid_domain(AfterAt(caller_id))
        THEN Sanitized(AfterAt(caller_id))
        ELSE <<>>

\* "Try From/To/Channel-Name headers"
RECURSIVE FromSipHeaders(_, _)
FromSipHeaders(event, i) ==
    IF i > Len(sip_headers) THEN <<>>
    ELSE LET h == getHeader(event, sip_headers[i])
         IN  IF h # <<>> /\ SipDomainOf(h) # <<>> /\ _is_valid_domain(SipDomainOf(h))
             THEN Sanitized(SipDomainOf(h))
             ELSE FromSipHeaders(event, i + 1)

\* "Final fallback: regexes against raw log line"
RECURSIVE FromLine(_, _)
FromLine(log_line, n) ==
    IF n > 4 THEN <<>>
    ELSE LET d == PatternGroup(n, log_line)
         IN  IF d # <<>> /\ _is_valid_domain(d) THEN Sanitized(d)
             ELSE FromLine(log_line, n + 1)

\* a chain that consults the rendered line before the headers
Mut_ExtractDomain_line_first(event, log_line) ==
    IF FromLine(log_line, 1) # <<>> THEN FromLine(log_line, 1)
    ELSE IF FromCandidates(event, 1) # <<>> THEN FromCandidates(event, 1)
    ELSE IF FromCallerId(event) # <<>> THEN FromCallerId(event)
    ELSE IF FromSipHeaders(event, 1) # <<>> THEN FromSipHeaders(event, 1)
    ELSE Unknown

\* extract_domain(event, log_line)
ExtractDomain(event, log_line) ==
    IF FromCandidates(event, 1) # <<>> THEN FromCandidates(event, 1)
    ELSE IF FromCallerId(event) # <<>> THEN FromCallerId(event)
    ELSE IF FromSipHeaders(event, 1) # <<>> THEN FromSipHeaders(event, 1)
    ELSE IF FromLine(log_line, 1) # <<>> THEN FromLine(log_line, 1)
    ELSE Unknown

\* extract_domain as process_event calls it for the events of the stream: the
\* first header of header_candidates, domain_name, decides when it holds a
\* valid plain value; these events carry no other header of the chain, and
\* their rendered lines hold no '@', 'sip:', 'sofia/' or bracketed host name,
\* so that every later step of the chain finds nothing
extract_domain(event) ==
    IF event.raises THEN Unknown
    ELSE LET v == Strip(event.domain_name)
         IN  IF v = <<>> \/ Lower(v) = Default THEN Unknown
             ELSE IF _is_valid_domain(v)
                  THEN LET d == SelectSeq(Strip(Lower(v)), KeepChar)
                       IN  IF d = <<>> THEN Unknown ELSE d
             ELSE Unknown

(***************************************************************************)
(* FreeSwitchLogCollector                                                  *)
(***************************************************************************)
None == <<"N", "o", "n", "e">>

\* event_id of process_event: f"{en}|{uid}", or None when getHeader raises
EventId(event) ==
    IF event.raises THEN None ELSE event.name \o <<"|">> \o event.uid

\* the elements of a sequence
Range(q) == { q[i] : i \in 1..Len(q) }

\* the last DedupWindow elements of a history of keys
LastKeys(q) ==
    IF Len(q) > DedupWindow THEN SubSeq(q, Len(q) - DedupWindow + 1, Len(q)) ELSE q

\* a deque that never forgets
Mut_DequeAppend_unbounded(q, x) == q \o <<x>>

\* deque(maxlen=DedupWindow).append
DequeAppend(q, x) ==
    IF Len(q) >= DedupWindow THEN SubSeq(q, Len(q) - DedupWindow + 2, Len(q)) \o <<x>>
    ELSE q \o <<x>>

\* a membership test that misses the newest key
Mut_IsDuplicate_skips_newest(event) ==
    /\ EventId(event) # None
    /\ \E i \in 1..(Len(recent_event_ids) - 1) : EventId(event) = recent_event_ids[i]

\* "if event_id and event_id in self.recent_event_ids"
IsDuplicate(event) ==
    EventId(event) # None /\ EventId(event) \in Range(recent_event_ids)

\* a rendering that does not single out the keep-alive event
Mut_RendersLine_any_name(event) == event.name # <<>>

\* process_event renders a log line for the event: LOG and CHANNEL_LOG events, and
\* every other named event except HEARTBEAT
RendersLine(event) ==
    \/ Upper(event.name) \in {LOG, CHANNEL_LOG}
    \/ event.name # <<>> /\ Upper(event.name) # HEARTBEAT

\* the sink state with the marks of the previous call cleared
Fresh(s) ==
    [s EXCEPT !.did_rename = FALSE, !.raised = FALSE, !.failed = FALSE, !.io_errors = {},
              !.opened = FALSE, !.leaked = FALSE]

\* process_event(event) for event number n of Events; f1 and f2 are the I/O
\* operations that fail in the two write_log calls
process_event(n, f1, f2, now) ==
    LET event == AllEvents[n]
        line == [id |-> n, sz |-> 1]
    IN  IF IsDuplicate(event)
        THEN /\ lastev' = [n |-> n, dropped |-> TRUE, wrote |-> FALSE, domain |-> <<>>]
             /\ UNCHANGED <<sinkVars, recent_event_ids, accepted>>
        ELSE /\ recent_event_ids' =
                    IF EventId(event) # None
                    THEN DequeAppend(recent_event_ids, EventId(event))
                    ELSE recent_event_ids
             /\ accepted' =
                    IF EventId(event) # None THEN LastKeys(accepted \o <<EventId(event)>>)
                    ELSE accepted
             /\ IF event.raises
                THEN \* getHeader raises again: caught by the outer except
                     /\ metrics' = record_error(record_event(metrics))
                     /\ lastev' = [n |-> n, dropped |-> FALSE, wrote |-> FALSE,
                                   domain |-> <<>>]
                     /\ f1 = {} /\ f2 = {}
                     /\ UNCHANGED <<file_handles, file_sizes, file_access, buffers,
                                    lm_running, live, rotated, clock, sec, calls,
                                    faults, last>>
                ELSE IF ~RendersLine(event)
                THEN /\ metrics' = record_event(metrics)
                     /\ lastev' = [n |-> n, dropped |-> FALSE, wrote |-> FALSE,
                                   domain |-> <<>>]
                     /\ f1 = {} /\ f2 = {}
                     /\ UNCHANGED <<file_handles, file_sizes, file_access, buffers,
                                    lm_running, live, rotated, clock, sec, calls,
                                    faults, last>>
                ELSE LET domain == extract_domain(event)
                         s0 == [SinkState EXCEPT !.metrics = record_event(@)]
                         s1 == WriteLog(s0, domain, line, f1, now)
                         s2 == WriteLog(Fresh(s1), FsCli, line, f2, now)
                     IN  /\ faults + Cardinality(f1) + Cardinality(f2) <= MaxFaults
                         /\ Becomes(s2)
                         /\ faults' = faults + Cardinality(s1.io_errors)
                                             + Cardinality(s2.io_errors)
                         /\ last' = LastWrite(s2, FsCli, line,
                                              LastWrite(s1, domain, line, last))
                         /\ calls' = calls
                         /\ lastev' = [n |-> n, dropped |-> FALSE, wrote |-> TRUE,
                                       domain |-> NormalizeDomain(domain)]
                         /\ UNCHANGED <<buffers, lm_running>>

(***************************************************************************)
(* The sink on its own: any sequence of write, flush and closeAll calls    *)
(***************************************************************************)
SinkInit ==
    /\ file_handles = {}
    /\ file_sizes = [d \in Keys |-> 0]
    /\ file_access = << >>
    /\ buffers = [d \in Keys |-> <<>>]
    /\ lm_running = TRUE
    /\ live = << >>
    /\ rotated = << >>
    /\ clock = 1
    /\ sec = 0
    /\ metrics = [events_processed |-> 0, logs_written |-> 0, domains_count |-> 0,
                  bytes_written |-> 0, errors_count |-> 0]
    /\ calls = 0
    /\ faults = 0
    /\ last = Last("init")

\* FreeSwitchLogCollector.__init__
CollectorInit ==
    /\ running = FALSE
    /\ connection = "None"
    /\ connected = FALSE
    /\ connection_attempts = 0
    /\ recent_event_ids = <<>>
    /\ pc = "init"
    /\ nevents = 0
    /\ received = <<>>
    /\ accepted = <<>>
    /\ lastev = NoEvent

\* the concurrent callers of the sink
Threads == {"t1", "t2"}

Idle == [pc |-> "idle", domain |-> <<>>, line |-> NoLine]

\* Lock(), and no caller inside the sink
ConcInit ==
    /\ lock = "free"
    /\ threads = [t \in Threads |-> Idle]
    /\ order = [d \in Keys |-> <<>>]

\* no signal yet, MetricsCollector.lock = Lock(), the reporter not started
StopInit ==
    /\ hpc = "none"
    /\ mlock = "free"
    /\ rpc = "idle"

\* the module constant MAX_FILE_DESCRIPTORS, and nothing fed yet
CapInit == cap = MAX_FILE_DESCRIPTORS /\ fed = <<>>

\* no connection and no subscription yet, no receive call made, last_flush is
\* the time of construction
ConnInit == subscription = "none" /\ lastrecv = "none" /\ due = FALSE

\* the counters a get_metrics call has read: none yet
NothingRead ==
    [events_processed |-> -1, logs_written |-> -1, domains_count |-> -1,
     bytes_written |-> -1, errors_count |-> -1]

\* no MetricsCollector call in progress, none made
MeterInit ==
    /\ mcall = [op |-> "none", at |-> 0, arg |-> 0]
    /\ snap = [at |-> 0, vals |-> NothingRead, moments |-> {}, n |-> 0]
    /\ issued = [record_event |-> 0, record_write |-> 0, record_domain |-> 0,
                 record_error |-> 0, bytes |-> 0]

\* no call of extract_domain on its own yet
NoClassify ==
    /\ cevent = [hdr |-> [h \in HeaderNames |-> <<>>], bad |-> {}]
    /\ cline = <<>>
    /\ ckeys = <<>>

Init ==
    /\ SinkInit /\ CollectorInit /\ ConcInit /\ StopInit /\ CapInit /\ NoClassify
    /\ ConnInit /\ MeterInit
    /\ source_up = FALSE

\* the seconds the wall clock can show at its next reading
Seconds == sec .. MaxSec

\* the inputs of one write_log call: the caller's arguments and the environment
WriteInputs == RawDomains \X Lines \X (SUBSET FailureKinds)

Write ==
    /\ calls < MaxCalls
    /\ \E in \in WriteInputs, now \in Seconds : write_log(in[1], in[2], in[3], now)
    /\ calls' = calls + 1
    /\ UNCHANGED loopVars
    /\ UNCHANGED concVars
    /\ UNCHANGED stopVars
    /\ UNCHANGED feedVars
    /\ UNCHANGED classVars
    /\ UNCHANGED connVars
    /\ UNCHANGED meterVars

Flush ==
    /\ calls < MaxCalls
    /\ \E now \in Seconds : flush_buffers({}, now)
    /\ calls' = calls + 1
    /\ UNCHANGED loopVars
    /\ UNCHANGED concVars
    /\ UNCHANGED stopVars
    /\ UNCHANGED feedVars
    /\ UNCHANGED classVars
    /\ UNCHANGED connVars
    /\ UNCHANGED meterVars

CloseAll ==
    /\ calls < MaxCalls
    /\ \E now \in Seconds : close_all({}, now)
    /\ calls' = calls + 1
    /\ UNCHANGED loopVars
    /\ UNCHANGED concVars
    /\ UNCHANGED stopVars
    /\ UNCHANGED feedVars
    /\ UNCHANGED classVars
    /\ UNCHANGED connVars
    /\ UNCHANGED meterVars

Next == Write \/ Flush \/ CloseAll

Spec == Init /\ [][Next]_vars

(***************************************************************************)
(* The sink with a caller that fills the buffers: LogManager.buffers is a  *)
(* public attribute that flush_buffers and close_all drain; write_log      *)
(* writes at once and never appends to it                                  *)
(***************************************************************************)
\* self.buffers[domain].append(entry): entry number calls + 1
BufferAppend ==
    /\ calls < MaxBuffer
    /\ \E d \in {<<"a">>, Unknown}, sz \in {1, rotation_size + 1} :
          buffers' = [buffers EXCEPT ![d] = Append(@, [id |-> calls + 1, sz |-> sz])]
    /\ calls' = calls + 1
    /\ last' = Last("append")
    /\ UNCHANGED <<file_handles, file_sizes, file_access, lm_running, live, rotated,
                   clock, sec, metrics, faults>>
    /\ UNCHANGED loopVars
    /\ UNCHANGED concVars
    /\ UNCHANGED stopVars
    /\ UNCHANGED feedVars
    /\ UNCHANGED classVars
    /\ UNCHANGED connVars
    /\ UNCHANGED meterVars

\* flush_buffers() on a file system on which the operations of fails fail
BufferFlush ==
    /\ calls < MaxBuffer
    /\ \E fails \in SUBSET FailureKinds, now \in Seconds :
          /\ Cardinality(fails) <= MaxFaults
          /\ flush_buffers(fails, now)
    /\ calls' = calls + 1
    /\ UNCHANGED loopVars
    /\ UNCHANGED concVars
    /\ UNCHANGED stopVars
    /\ UNCHANGED feedVars
    /\ UNCHANGED classVars
    /\ UNCHANGED connVars
    /\ UNCHANGED meterVars

BufferNext == BufferAppend \/ BufferFlush

BufferSpec == Init /\ [][BufferNext]_vars

\* the same calls, in longer sequences
DeepWrite ==
    /\ calls < MaxDeepCalls
    /\ \E in \in WriteInputs, now \in Seconds : write_log(in[1], in[2], in[3], now)
    /\ calls' = calls + 1
    /\ UNCHANGED loopVars
    /\ UNCHANGED concVars
    /\ UNCHANGED stopVars
    /\ UNCHANGED feedVars
    /\ UNCHANGED classVars
    /\ UNCHANGED connVars
    /\ UNCHANGED meterVars

DeepFlush ==
    /\ calls < MaxDeepCalls
    /\ \E now \in Seconds : flush_buffers({}, now)
    /\ calls' = calls + 1
    /\ UNCHANGED loopVars
    /\ UNCHANGED concVars
    /\ UNCHANGED stopVars
    /\ UNCHANGED feedVars
    /\ UNCHANGED classVars
    /\ UNCHANGED connVars
    /\ UNCHANGED meterVars

DeepCloseAll ==
    /\ calls < MaxDeepCalls
    /\ \E now \in Seconds : close_all({}, now)
    /\ calls' = calls + 1
    /\ UNCHANGED loopVars
    /\ UNCHANGED concVars
    /\ UNCHANGED stopVars
    /\ UNCHANGED feedVars
    /\ UNCHANGED classVars
    /\ UNCHANGED connVars
    /\ UNCHANGED meterVars

DeepNext == DeepWrite \/ DeepFlush \/ DeepCloseAll

DeepSpec == Init /\ [][DeepNext]_vars

\* run(): the loop starts
Start ==
    /\ pc = "init"
    /\ running' = TRUE
    /\ pc' = "top"
    /\ UNCHANGED <<sinkVars, connection, connected, source_up, connection_attempts,
                   recent_event_ids, nevents, received, accepted, lastev>>
    /\ UNCHANGED concVars
    /\ UNCHANGED stopVars
    /\ UNCHANGED feedVars
    /\ UNCHANGED classVars
    /\ UNCHANGED connVars
    /\ UNCHANGED meterVars

\* "not self.connection or not self.connection.connected()"
NotConnected == connection = "None" \/ ~connected

\* a connect() that leaves the counter alone when it succeeds
Mut_connect_keeps_count(how, sub) ==
    IF source_up
    THEN /\ connection' = "obj"
         /\ connected' = TRUE
         /\ subscription' = sub
         /\ connection_attempts' = connection_attempts
    ELSE /\ connection' = IF how = "esl" THEN "obj" ELSE connection
         /\ connected' = IF how = "esl" THEN FALSE ELSE connected
         /\ subscription' = IF how = "esl" THEN "none" ELSE subscription
         /\ connection_attempts' = connection_attempts + 1

\* the outcomes of the subscription in connect(): events("log", "all") is
\* accepted; it raises and events("plain", "all") is accepted; both raise
Subscriptions == {"log", "plain", "none"}

\* connect(): the TCP probe or the ESL connection fails when the source is
\* down (how is either "tcp", which leaves self.connection alone, or "esl",
\* which stores the unconnected object); when the source is up the connection
\* is made, the subscription ends as sub says, the counter restarts and
\* connect() returns True whatever sub is
connect(how, sub) ==
    IF source_up
    THEN /\ connection' = "obj"
         /\ connected' = TRUE
         /\ subscription' = sub
         /\ connection_attempts' = 0
    ELSE /\ connection' = IF how = "esl" THEN "obj" ELSE connection
         /\ connected' = IF how = "esl" THEN FALSE ELSE connected
         /\ subscription' = IF how = "esl" THEN "none" ELSE subscription
         /\ connection_attempts' = connection_attempts + 1

\* run(): not connected, attempts left: connect(); on failure sleep
\* RECONNECT_DELAY and continue
ReconnectWith(subs) ==
    /\ pc = "top" /\ running
    /\ NotConnected
    /\ connection_attempts < max_connection_attempts
    /\ \E how \in {"tcp", "esl"}, sub \in subs : connect(how, sub)
    /\ pc' = IF connected' THEN "recv" ELSE "backoff"
    /\ lastrecv' = "none"
    /\ UNCHANGED <<sinkVars, running, source_up, recent_event_ids, nevents,
                   received, accepted, lastev, due>>
    /\ UNCHANGED meterVars
    /\ UNCHANGED concVars
    /\ UNCHANGED stopVars
    /\ UNCHANGED feedVars
    /\ UNCHANGED classVars

\* the same with a source that accepts the subscription to the raw log
Reconnect == ReconnectWith({"log"})

\* run(): time.sleep(RECONNECT_DELAY) is over
EndBackoff ==
    /\ pc = "backoff"
    /\ pc' = "top"
    /\ UNCHANGED <<sinkVars, running, connection, connected, source_up,
                   connection_attempts, recent_event_ids, nevents, received,
                   accepted, lastev>>
    /\ UNCHANGED concVars
    /\ UNCHANGED stopVars
    /\ UNCHANGED feedVars
    /\ UNCHANGED classVars
    /\ UNCHANGED connVars
    /\ UNCHANGED meterVars

\* run(): not connected and no attempt left: sleep 30 s
EnterCooldown ==
    /\ pc = "top" /\ running
    /\ NotConnected
    /\ connection_attempts >= max_connection_attempts
    /\ pc' = "cooldown"
    /\ UNCHANGED <<sinkVars, running, connection, connected, source_up,
                   connection_attempts, recent_event_ids, nevents, received,
                   accepted, lastev>>
    /\ UNCHANGED concVars
    /\ UNCHANGED stopVars
    /\ UNCHANGED feedVars
    /\ UNCHANGED classVars
    /\ UNCHANGED connVars
    /\ UNCHANGED meterVars

\* a cooldown that does not restart the counter
Mut_AfterCooldown_keeps_count == connection_attempts' = connection_attempts

\* the body of EndCooldown: the counter restarts at 0
AfterCooldown == connection_attempts' = 0

\* run(): time.sleep(30) is over, connection_attempts = 0, continue
EndCooldown ==
    /\ pc = "cooldown"
    /\ AfterCooldown
    /\ pc' = "top"
    /\ UNCHANGED <<sinkVars, running, connection, connected, source_up,
                   recent_event_ids, nevents, received, accepted, lastev>>
    /\ UNCHANGED concVars
    /\ UNCHANGED stopVars
    /\ UNCHANGED feedVars
    /\ UNCHANGED classVars
    /\ UNCHANGED connVars
    /\ UNCHANGED meterVars

\* run(): connected, go on to recvEventTimed
StayConnected ==
    /\ pc = "top" /\ running
    /\ ~NotConnected
    /\ pc' = "recv"
    /\ UNCHANGED <<sinkVars, running, connection, connected, source_up,
                   connection_attempts, recent_event_ids, nevents, received,
                   accepted, lastev>>
    /\ UNCHANGED concVars
    /\ UNCHANGED stopVars
    /\ UNCHANGED feedVars
    /\ UNCHANGED classVars
    /\ UNCHANGED connVars
    /\ UNCHANGED meterVars

\* the failure choices of one write_log call
FailChoices == { f \in SUBSET FailureKinds : Cardinality(f) <= MaxFaults }

\* the choice of a file system that works
NoFailure == { {} }

\* run(): recvEventTimed returns an event, process_event handles it; choices
\* are the sets of I/O operations that may fail in each write_log call
recvEvent(choices) ==
    /\ pc = "recv"
    /\ connected /\ source_up
    /\ \E n \in 1..Len(Events), f1, f2 \in choices, now \in Seconds :
          /\ process_event(n, f1, f2, now)
          /\ received' = LastKeys(received \o <<EventId(Events[n])>>)
    /\ nevents' = nevents + 1
    /\ pc' = "flush"
    /\ UNCHANGED <<running, connection, connected, source_up, connection_attempts>>
    /\ UNCHANGED concVars
    /\ UNCHANGED stopVars
    /\ UNCHANGED feedVars
    /\ UNCHANGED classVars
    /\ UNCHANGED connVars
    /\ UNCHANGED meterVars

\* run(): recvEventTimed returns None after the timeout, or raises
ReceiveNothing ==
    /\ pc = "recv"
    /\ pc' = "flush"
    /\ UNCHANGED <<sinkVars, running, connection, connected, source_up,
                   connection_attempts, recent_event_ids, nevents, received,
                   accepted, lastev>>
    /\ UNCHANGED concVars
    /\ UNCHANGED stopVars
    /\ UNCHANGED feedVars
    /\ UNCHANGED classVars
    /\ UNCHANGED connVars
    /\ UNCHANGED meterVars

\* run(): the periodic flush, when BUFFER_FLUSH_INTERVAL has elapsed
PeriodicFlush ==
    /\ pc = "flush"
    /\ \/ \E now \in Seconds : flush_buffers({}, now) /\ calls' = calls
       \/ UNCHANGED sinkVars
    /\ pc' = "top"
    /\ UNCHANGED <<running, connection, connected, source_up, connection_attempts,
                   recent_event_ids, nevents, received, accepted, lastev>>
    /\ UNCHANGED concVars
    /\ UNCHANGED stopVars
    /\ UNCHANGED feedVars
    /\ UNCHANGED classVars
    /\ UNCHANGED connVars
    /\ UNCHANGED meterVars

\* the event source becomes unreachable; an open connection reports not connected
SourceDown ==
    /\ pc # "exited"
    /\ source_up
    /\ source_up' = FALSE
    /\ connected' = FALSE
    /\ subscription' = "none"
    /\ UNCHANGED <<sinkVars, running, connection, connection_attempts,
                   recent_event_ids, pc, nevents, received, accepted, lastev>>
    /\ UNCHANGED concVars
    /\ UNCHANGED stopVars
    /\ UNCHANGED feedVars
    /\ UNCHANGED classVars
    /\ UNCHANGED <<lastrecv, due>>
    /\ UNCHANGED meterVars

\* the event source becomes reachable
SourceUp ==
    /\ pc # "exited"
    /\ ~source_up
    /\ source_up' = TRUE
    /\ UNCHANGED <<sinkVars, running, connection, connected, connection_attempts,
                   recent_event_ids, pc, nevents, received, accepted, lastev>>
    /\ UNCHANGED concVars
    /\ UNCHANGED stopVars
    /\ UNCHANGED feedVars
    /\ UNCHANGED classVars
    /\ UNCHANGED connVars
    /\ UNCHANGED meterVars

\* _signal_handler: SIGINT or SIGTERM runs shutdown() (running = False,
\* disconnect, close_all, final metrics) and exits the process
Signal ==
    /\ pc # "exited"
    /\ running' = FALSE
    /\ connected' = FALSE
    /\ \E now \in Seconds : close_all({}, now)
    /\ calls' = calls
    /\ pc' = "exited"
    /\ subscription' = "none"
    /\ UNCHANGED <<connection, source_up, connection_attempts, recent_event_ids,
                   nevents, received, accepted, lastev>>
    /\ UNCHANGED concVars
    /\ UNCHANGED stopVars
    /\ UNCHANGED feedVars
    /\ UNCHANGED classVars
    /\ UNCHANGED <<lastrecv, due>>
    /\ UNCHANGED meterVars

\* an exception that leaves the loop and ends it
Mut_AfterLoopError_ends == pc' = "exited"

\* run(), "except Exception" of the loop body: after time.sleep(1) the loop
\* goes on with its next iteration
AfterLoopError == pc' = "top"

\* run(): a statement of the loop body outside the inner try blocks raises
\* (self.connection.connected() of the connection test); the loop counts the
\* error and sleeps one second
LoopError ==
    /\ pc = "top" /\ running
    /\ connection = "obj"
    /\ faults < MaxFaults
    /\ faults' = faults + 1
    /\ metrics' = record_error(metrics)
    /\ last' = Last("loop_error")
    /\ AfterLoopError
    /\ UNCHANGED <<file_handles, file_sizes, file_access, buffers, lm_running, live,
                   rotated, clock, sec, calls>>
    /\ UNCHANGED <<running, connection, connected, source_up, connection_attempts,
                   recent_event_ids, nevents, received, accepted, lastev>>
    /\ UNCHANGED concVars
    /\ UNCHANGED stopVars
    /\ UNCHANGED feedVars
    /\ UNCHANGED classVars
    /\ UNCHANGED connVars
    /\ UNCHANGED meterVars

ReceiveEvent == nevents < MaxEvents /\ recvEvent(FailChoices)

\* the steps of the main thread other than the receipt of an event
LoopStep ==
    \/ Start
    \/ Reconnect
    \/ EndBackoff
    \/ EnterCooldown
    \/ EndCooldown
    \/ StayConnected
    \/ ReceiveNothing
    \/ PeriodicFlush

LoopNext == LoopStep \/ LoopError \/ ReceiveEvent \/ SourceDown \/ SourceUp \/ Signal

LoopSpec == Init /\ [][LoopNext]_vars

\* the same loop over a longer sequence of events, with a file system that
\* works, a source that stays reachable once it is, and without a stop signal
DeepReceiveEvent == nevents < MaxDeepEvents /\ recvEvent(NoFailure)

DeepLoopNext == LoopStep \/ DeepReceiveEvent \/ SourceUp

DeepLoopSpec == Init /\ [][DeepLoopNext]_vars

\* the loop under fair scheduling, with a file system that works: the main
\* thread keeps taking steps
LiveReceiveEvent == nevents < MaxLiveEvents /\ recvEvent(NoFailure)

LiveNext == LoopStep \/ LiveReceiveEvent \/ SourceDown \/ SourceUp \/ Signal

LiveSpec == Init /\ [][LiveNext]_vars /\ WF_vars(LoopStep \/ LiveReceiveEvent)

(***************************************************************************)
(* The connection of an idle source: the subscription made by connect(),   *)
(* receive calls that time out or raise, and the timer of the flush        *)
(***************************************************************************)
\* run(): connect() with any outcome of the subscription
SubReconnect == ReconnectWith(Subscriptions)

\* run(): recvEventTimed(1000) ends as outcome says: it returns None after
\* the timeout ("nothing"), or it raises and the exception is logged at
\* debug level ("raised"); either way the loop goes on to the flush test
recvEventTimed(outcome) ==
    /\ pc = "recv"
    /\ lastrecv' = outcome
    /\ pc' = "flush"
    /\ UNCHANGED <<sinkVars, running, connection, connected, source_up,
                   connection_attempts, recent_event_ids, nevents, received,
                   accepted, lastev, subscription, due>>
    /\ UNCHANGED meterVars
    /\ UNCHANGED concVars
    /\ UNCHANGED stopVars
    /\ UNCHANGED feedVars
    /\ UNCHANGED classVars

ReceiveTimesOut == recvEventTimed("nothing")

ReceiveRaises == recvEventTimed("raised")

\* run(): "if current_time - self.last_flush >= BUFFER_FLUSH_INTERVAL":
\* flush_buffers() and last_flush = current_time
TimedFlush ==
    /\ pc = "flush"
    /\ IF due
       THEN /\ \E now \in Seconds : flush_buffers({}, now)
            /\ calls' = calls
            /\ due' = FALSE
       ELSE UNCHANGED <<sinkVars, due>>
    /\ pc' = "top"
    /\ UNCHANGED <<running, connection, connected, source_up, connection_attempts,
                   recent_event_ids, nevents, received, accepted, lastev,
                   subscription, lastrecv>>
    /\ UNCHANGED meterVars
    /\ UNCHANGED concVars
    /\ UNCHANGED stopVars
    /\ UNCHANGED feedVars
    /\ UNCHANGED classVars

\* time passes: BUFFER_FLUSH_INTERVAL seconds have gone by since last_flush
Tick ==
    /\ pc # "init"
    /\ ~due
    /\ due' = TRUE
    /\ UNCHANGED <<sinkVars, loopVars, concVars, stopVars, feedVars, classVars,
                   subscription, lastrecv>>
    /\ UNCHANGED meterVars

\* the steps of the main thread
ConnectStep ==
    \/ Start
    \/ SubReconnect
    \/ EndBackoff
    \/ EnterCooldown
    \/ EndCooldown
    \/ StayConnected
    \/ ReceiveTimesOut
    \/ ReceiveRaises
    \/ TimedFlush

ConnectNext == ConnectStep \/ Tick \/ SourceDown \/ SourceUp

\* the main thread keeps running: it is the only thread of the loop, and each
\* of its sleeps and receive calls ends
ConnectSpec == Init /\ [][ConnectNext]_vars /\ WF_vars(ConnectStep)

(***************************************************************************)
(* MetricsCollector: the record_ calls of the main thread and the          *)
(* get_metrics calls of the reporter thread, statement by statement        *)
(***************************************************************************)
\* a lock that is always granted
Mut_MetricsLockFree_always == TRUE

\* "with self.lock" of MetricsCollector can be entered
MetricsLockFree == mlock = "free"

\* the other state, which no call on MetricsCollector touches
MeterUnchanged ==
    /\ UNCHANGED <<file_handles, file_sizes, file_access, buffers, lm_running, live,
                   rotated, clock, sec, calls, faults, last>>
    /\ UNCHANGED <<loopVars, concVars, hpc, rpc, feedVars, classVars, connVars>>

\* the main thread calls record_event(), record_write(size),
\* record_domain(count) or record_error()
MeterCall ==
    /\ mcall.op = "none"
    /\ issued.record_event + issued.record_write + issued.record_error
           + issued.record_domain < MaxMeterCalls
    /\ \E op \in {"record_event", "record_write", "record_domain", "record_error"},
          arg \in {1, 2} :
          /\ mcall' = [op |-> op, at |-> 1, arg |-> arg]
          /\ issued' = [issued EXCEPT ![op] = @ + 1,
                                      !.bytes = IF op = "record_write" THEN @ + arg ELSE @]
    /\ UNCHANGED <<metrics, mlock, snap>>
    /\ MeterUnchanged

\* "with self.lock" of the record_ method
MeterAcquire ==
    /\ mcall.at = 1
    /\ MetricsLockFree
    /\ mlock' = "main"
    /\ mcall' = [mcall EXCEPT !.at = 2]
    /\ UNCHANGED <<metrics, snap, issued>>
    /\ MeterUnchanged

\* what the statement of the record_ method at which the main thread is
\* makes of the counters
AfterStatement ==
    IF mcall.op = "record_event" THEN record_event(metrics)
    ELSE IF mcall.op = "record_error" THEN record_error(metrics)
    ELSE IF mcall.op = "record_domain" THEN record_domain(metrics, mcall.arg)
    ELSE IF mcall.at = 2 THEN [metrics EXCEPT !.logs_written = @ + 1]
    ELSE [metrics EXCEPT !.bytes_written = @ + mcall.arg]

\* one statement of the with block; the last one also ends the block
MeterStatement ==
    /\ mcall.at \in {2, 3}
    /\ metrics' = AfterStatement
    /\ IF mcall.op = "record_write" /\ mcall.at = 2
       THEN mcall' = [mcall EXCEPT !.at = 3] /\ UNCHANGED mlock
       ELSE mcall' = [op |-> "none", at |-> 0, arg |-> 0] /\ mlock' = "free"
    /\ snap' = IF snap.at > 0 THEN [snap EXCEPT !.moments = @ \cup {metrics'}] ELSE snap
    /\ UNCHANGED issued
    /\ MeterUnchanged

\* the counters in the order in which the dict of get_metrics reads them
SnapshotFields ==
    << "events_processed", "logs_written", "domains_count", "bytes_written",
       "errors_count" >>

\* _metrics_worker: get_metrics() enters its with block
SnapEnter ==
    /\ snap.at = 0
    /\ snap.n < MaxSnaps
    /\ MetricsLockFree
    /\ mlock' = "reporter"
    /\ snap' = [at |-> 1, vals |-> NothingRead, moments |-> {metrics}, n |-> snap.n + 1]
    /\ UNCHANGED <<metrics, mcall, issued>>
    /\ MeterUnchanged

\* get_metrics() reads one counter; after the last one it leaves the with
\* block and returns the dict
SnapRead ==
    /\ snap.at \in 1..Len(SnapshotFields)
    /\ snap' = [snap EXCEPT !.vals[SnapshotFields[snap.at]] = metrics[SnapshotFields[snap.at]],
                            !.at = IF snap.at = Len(SnapshotFields) THEN 0 ELSE @ + 1]
    /\ mlock' = IF snap.at = Len(SnapshotFields) THEN "free" ELSE mlock
    /\ UNCHANGED <<metrics, mcall, issued>>
    /\ MeterUnchanged

MeterNext == MeterCall \/ MeterAcquire \/ MeterStatement \/ SnapEnter \/ SnapRead

MeterSpec == Init /\ [][MeterNext]_vars

(***************************************************************************)
(* The sink called by concurrent threads                                   *)
(***************************************************************************)
\* a lock that is always granted
Mut_LockFree_always == TRUE

\* Lock.acquire blocks while another thread holds the lock
LockFree == lock = "free"

\* "with self.lock:" on entry
Acquire(t) == LockFree /\ lock' = t

\* "with self.lock:" on exit
Release(t) == lock' = "free"

At(t, where) == threads[t].pc = where

Goto(t, where) == threads' = [threads EXCEPT ![t].pc = where]

\* write_log: the thread enters the with block with its arguments
CallWrite(t) ==
    /\ At(t, "idle")
    /\ calls < MaxConcCalls
    /\ Acquire(t)
    /\ \E raw \in RawDomains :
          LET domain == NormalizeDomain(raw)
          IN  /\ threads' = [threads EXCEPT ![t] =
                                [pc |-> "prepare", domain |-> domain,
                                 line |-> [id |-> calls + 1, sz |-> 1]]]
              /\ order' = [order EXCEPT ![domain] = Append(@, [id |-> calls + 1, by |-> t])]
    /\ calls' = calls + 1
    /\ UNCHANGED <<file_handles, file_sizes, file_access, buffers, lm_running, live,
                   rotated, clock, sec, metrics, faults, last, loopVars>>
    /\ UNCHANGED stopVars
    /\ UNCHANGED feedVars
    /\ UNCHANGED classVars
    /\ UNCHANGED connVars
    /\ UNCHANGED meterVars

\* _write_to_file up to "Open file if necessary"
Prepare(t) ==
    /\ At(t, "prepare")
    /\ \E now \in Seconds :
          LET domain == threads[t].domain
          IN  Becomes(OpenIfNecessary(
                        EnforceLimit(RotateIfNeeded(SinkState, domain, 1, {}, now), domain),
                        domain, {}))
    /\ Goto(t, "write")
    /\ UNCHANGED <<buffers, lm_running, calls, faults, last, lock, order, loopVars>>
    /\ UNCHANGED stopVars
    /\ UNCHANGED feedVars
    /\ UNCHANGED classVars
    /\ UNCHANGED connVars
    /\ UNCHANGED meterVars

\* _write_to_file from "f = self.file_handles[domain]" on (a missing handle
\* raises KeyError), and the end of the with block
WriteRelease(t) ==
    /\ At(t, "write")
    /\ LET domain == threads[t].domain
           line == threads[t].line
           s == Except(IF domain \in file_handles
                       THEN WriteContent(SinkState, domain, <<line>>, {})
                       ELSE Raise(SinkState, "write"),
                       domain)
       IN  /\ Becomes(s)
           /\ last' = LastWrite(s, domain, line, last)
    /\ Release(t)
    /\ threads' = [threads EXCEPT ![t] = Idle]
    /\ UNCHANGED <<buffers, lm_running, calls, faults, order, loopVars>>
    /\ UNCHANGED stopVars
    /\ UNCHANGED feedVars
    /\ UNCHANGED classVars
    /\ UNCHANGED connVars
    /\ UNCHANGED meterVars

\* flush_buffers: the thread enters the with block
CallFlush(t) ==
    /\ At(t, "idle")
    /\ calls < MaxConcCalls
    /\ Acquire(t)
    /\ Goto(t, "flush")
    /\ calls' = calls + 1
    /\ UNCHANGED <<file_handles, file_sizes, file_access, buffers, lm_running, live,
                   rotated, clock, sec, metrics, faults, last, order, loopVars>>
    /\ UNCHANGED stopVars
    /\ UNCHANGED feedVars
    /\ UNCHANGED classVars
    /\ UNCHANGED connVars
    /\ UNCHANGED meterVars

\* flush_buffers: the body and the end of the with block
FlushRelease(t) ==
    /\ At(t, "flush")
    /\ \E now \in Seconds : flush_buffers({}, now)
    /\ Release(t)
    /\ Goto(t, "idle")
    /\ UNCHANGED <<calls, order, loopVars>>
    /\ UNCHANGED stopVars
    /\ UNCHANGED feedVars
    /\ UNCHANGED classVars
    /\ UNCHANGED connVars
    /\ UNCHANGED meterVars

\* close_all: self.running = False, before any lock is taken
CallCloseAll(t) ==
    /\ At(t, "idle")
    /\ calls < MaxConcCalls
    /\ lm_running' = FALSE
    /\ Goto(t, "close_flush_wait")
    /\ calls' = calls + 1
    /\ UNCHANGED <<file_handles, file_sizes, file_access, buffers, live, rotated,
                   clock, sec, metrics, faults, last, lock, order, loopVars>>
    /\ UNCHANGED stopVars
    /\ UNCHANGED feedVars
    /\ UNCHANGED classVars
    /\ UNCHANGED connVars
    /\ UNCHANGED meterVars

\* close_all: flush_buffers enters its with block
CloseAcquireFlush(t) ==
    /\ At(t, "close_flush_wait")
    /\ Acquire(t)
    /\ Goto(t, "close_flush")
    /\ UNCHANGED <<sinkVars, order, loopVars>>
    /\ UNCHANGED stopVars
    /\ UNCHANGED feedVars
    /\ UNCHANGED classVars
    /\ UNCHANGED connVars
    /\ UNCHANGED meterVars

\* close_all: flush_buffers runs and leaves its with block
CloseFlushRelease(t) ==
    /\ At(t, "close_flush")
    /\ \E now \in Seconds : flush_buffers({}, now)
    /\ Release(t)
    /\ Goto(t, "close_wait")
    /\ UNCHANGED <<calls, order, loopVars>>
    /\ UNCHANGED stopVars
    /\ UNCHANGED feedVars
    /\ UNCHANGED classVars
    /\ UNCHANGED connVars
    /\ UNCHANGED meterVars

\* close_all: the thread enters the with block of close_all
CloseAcquire(t) ==
    /\ At(t, "close_wait")
    /\ Acquire(t)
    /\ Goto(t, "closing")
    /\ UNCHANGED <<sinkVars, order, loopVars>>
    /\ UNCHANGED stopVars
    /\ UNCHANGED feedVars
    /\ UNCHANGED classVars
    /\ UNCHANGED connVars
    /\ UNCHANGED meterVars

\* close_all: every handle is closed, both maps are cleared, the lock released
CloseRelease(t) ==
    /\ At(t, "closing")
    /\ file_handles' = {}
    /\ file_access' = << >>
    /\ last' = Last("close_all")
    /\ Release(t)
    /\ Goto(t, "idle")
    /\ UNCHANGED <<file_sizes, buffers, lm_running, live, rotated, clock, sec,
                   metrics, calls, faults, order, loopVars>>
    /\ UNCHANGED stopVars
    /\ UNCHANGED feedVars
    /\ UNCHANGED classVars
    /\ UNCHANGED connVars
    /\ UNCHANGED meterVars

ConcNext ==
    \E t \in Threads :
        \/ CallWrite(t)
        \/ Prepare(t)
        \/ WriteRelease(t)
        \/ CallFlush(t)
        \/ FlushRelease(t)
        \/ CallCloseAll(t)
        \/ CloseAcquireFlush(t)
        \/ CloseFlushRelease(t)
        \/ CloseAcquire(t)
        \/ CloseRelease(t)

ConcSpec == Init /\ [][ConcNext]_vars

(***************************************************************************)
(* Events fed to process_event one after the other, with MAX_FILE_         *)
(* DESCRIPTORS=1 in the environment                                        *)
(***************************************************************************)
FeedInit ==
    /\ SinkInit /\ CollectorInit /\ ConcInit /\ StopInit /\ source_up = FALSE
    /\ cap = 1
    /\ fed = <<>>
    /\ NoClassify
    /\ ConnInit /\ MeterInit

\* process_event(event) for one of the fed events
Feed ==
    /\ Len(fed) < MaxFeed
    /\ \E n \in TenantNumbers, now \in Seconds :
          /\ process_event(n, {}, {}, now)
          /\ fed' = Append(fed, n)
    /\ UNCHANGED <<running, connection, connected, source_up, connection_attempts,
                   pc, nevents, received, cap>>
    /\ UNCHANGED concVars
    /\ UNCHANGED stopVars
    /\ UNCHANGED classVars
    /\ UNCHANGED connVars
    /\ UNCHANGED meterVars

\* flush_buffers, as the loop calls it between events
FeedFlush ==
    /\ \E now \in Seconds : flush_buffers({}, now)
    /\ UNCHANGED <<calls, loopVars, concVars, stopVars, feedVars, classVars, connVars, meterVars>>

FeedNext == Feed \/ FeedFlush

FeedSpec == FeedInit /\ [][FeedNext]_vars

(***************************************************************************)
(* Log events and the tenants' events fed to process_event one after the   *)
(* other, with the default handle cap                                      *)
(***************************************************************************)
\* process_event(event) for one of the log events or of the tenants' events
LogFeed ==
    /\ Len(fed) < MaxFeed
    /\ \E n \in TenantNumbers \cup LogNumbers, now \in Seconds :
          /\ process_event(n, {}, {}, now)
          /\ fed' = Append(fed, n)
    /\ UNCHANGED <<running, connection, connected, source_up, connection_attempts,
                   pc, nevents, received, cap>>
    /\ UNCHANGED concVars
    /\ UNCHANGED stopVars
    /\ UNCHANGED classVars
    /\ UNCHANGED connVars
    /\ UNCHANGED meterVars

LogNext == LogFeed \/ FeedFlush

LogSpec == Init /\ [][LogNext]_vars

(***************************************************************************)
(* extract_domain on its own: called for an event and a rendered line      *)
(***************************************************************************)
Ucom == <<"u", "@", "a", ".", "c", "o", "m">>
SipUcom == <<"s", "i", "p", ":", "u", "@", "b", ".", "c", "o", "m">>

\* the values of the header domain_name: absent, plain names in several
\* spellings, the literal default, a malformed name, and two addresses
PrimaryValues ==
    { <<>>, Acom, <<" ", "B", ".", "c", "o", "m">>, <<"D", "e", "f", "a", "u", "l", "t">>,
      <<"a", ".", ".", "b">>, Localhost, Ucom, SipUcom }

\* the events: domain_name, Caller-Domain, Caller-ID-Number and From are
\* present or not, and the access to some headers, or to all, raises
ClassifyEvents ==
    { [hdr |-> [h \in HeaderNames |->
                   IF h = "domain_name" THEN d
                   ELSE IF h = "Caller-Domain" THEN c
                   ELSE IF h = "Caller-ID-Number" THEN n
                   ELSE IF h = "From" THEN f
                   ELSE <<>>],
       bad |-> b] :
         d \in PrimaryValues, c \in {<<>>, Bcom}, n \in {<<>>, Ucom},
         f \in {<<>>, SipUcom},
         b \in (SUBSET {"domain_name", "Caller-Domain", "From"}) \cup {HeaderNames} }

\* the rendered lines: without an address, with user@host, with a sofia
\* channel, with a bracketed host name
ClassifyLines ==
    { <<>>,
      <<"x", " ", "u", "@", "a", ".", "c", "o", "m">>,
      <<"s", "o", "f", "i", "a", "/", "p", "/", "b", ".", "c", "o", "m">>,
      <<"[", "a", ".", "c", "o", "m", "]">> }

ClassifyInit ==
    /\ SinkInit /\ CollectorInit /\ ConcInit /\ StopInit /\ CapInit
    /\ ConnInit /\ MeterInit
    /\ source_up = FALSE
    /\ cevent \in ClassifyEvents
    /\ cline \in ClassifyLines
    /\ ckeys = <<>>

\* one call extract_domain(event, log_line)
Classify ==
    /\ Len(ckeys) < MaxClassify
    /\ ckeys' = Append(ckeys, ExtractDomain(cevent, cline))
    /\ UNCHANGED <<sinkVars, loopVars, concVars, stopVars, feedVars, cevent, cline,
                   connVars, meterVars>>

ClassifyNext == Classify

ClassifySpec == ClassifyInit /\ [][ClassifyNext]_vars

(***************************************************************************)
(* The stop signal: _signal_handler interrupts the main thread at any      *)
(* point, also while the main thread holds a lock; the main thread does    *)
(* not run while the handler runs, the metrics reporter thread does        *)
(***************************************************************************)
\* the events of the runs with a stop signal: those that are rendered to a line
StopEvents == { n \in 1..Len(Events) : ~Events[n].raises /\ RendersLine(Events[n]) }

\* the steps of run() that touch no lock, while no signal handler runs
StopLoopStep ==
    /\ hpc = "none"
    /\ \/ Start
       \/ Reconnect
       \/ EndBackoff
       \/ EnterCooldown
       \/ EndCooldown
       \/ StayConnected
       \/ ReceiveNothing

\* run(): recvEventTimed returns an event; process_event up to the
\* duplicate test and recent_event_ids.append
StopReceive ==
    /\ hpc = "none"
    /\ pc = "recv"
    /\ connected /\ source_up
    /\ nevents < MaxStopEvents
    /\ \E n \in StopEvents :
          /\ received' = LastKeys(received \o <<EventId(Events[n])>>)
          /\ IF IsDuplicate(Events[n])
             THEN /\ lastev' = [n |-> n, dropped |-> TRUE, wrote |-> FALSE, domain |-> <<>>]
                  /\ pc' = "flush"
                  /\ UNCHANGED <<recent_event_ids, accepted>>
             ELSE /\ lastev' = [n |-> n, dropped |-> FALSE, wrote |-> FALSE,
                               domain |-> <<>>]
                  /\ recent_event_ids' = DequeAppend(recent_event_ids, EventId(Events[n]))
                  /\ accepted' = LastKeys(accepted \o <<EventId(Events[n])>>)
                  /\ pc' = "record_event"
    /\ nevents' = nevents + 1
    /\ UNCHANGED <<sinkVars, running, connection, connected, source_up,
                   connection_attempts, concVars, stopVars, feedVars, classVars, connVars, meterVars>>

\* MetricsCollector.record_event: "with self.lock" on entry
EnterRecordEvent ==
    /\ hpc = "none"
    /\ pc = "record_event"
    /\ mlock = "free"
    /\ mlock' = "main"
    /\ pc' = "in_record_event"
    /\ UNCHANGED <<sinkVars, running, connection, connected, source_up,
                   connection_attempts, recent_event_ids, nevents, received,
                   accepted, lastev, concVars, hpc, rpc>>
    /\ UNCHANGED feedVars
    /\ UNCHANGED classVars
    /\ UNCHANGED connVars
    /\ UNCHANGED meterVars

\* MetricsCollector.record_event: the count, and the end of the with block
LeaveRecordEvent ==
    /\ hpc = "none"
    /\ pc = "in_record_event"
    /\ metrics' = record_event(metrics)
    /\ mlock' = "free"
    /\ pc' = "write_domain"
    /\ UNCHANGED <<file_handles, file_sizes, file_access, buffers, lm_running, live,
                   rotated, clock, sec, calls, faults, last>>
    /\ UNCHANGED <<running, connection, connected, source_up, connection_attempts,
                   recent_event_ids, nevents, received, accepted, lastev, concVars,
                   hpc, rpc>>
    /\ UNCHANGED feedVars
    /\ UNCHANGED classVars
    /\ UNCHANGED connVars
    /\ UNCHANGED meterVars

\* where the main thread is once it holds the sink's lock
Inside(where) ==
    IF where = "write_domain" THEN "in_write_domain"
    ELSE IF where = "write_fs_cli" THEN "in_write_fs_cli"
    ELSE "in_flush"

\* write_log or flush_buffers of the main thread: "with self.lock" on entry
EnterSink ==
    /\ hpc = "none"
    /\ pc \in {"write_domain", "write_fs_cli", "flush"}
    /\ LockFree
    /\ lock' = "main"
    /\ pc' = Inside(pc)
    /\ UNCHANGED <<sinkVars, running, connection, connected, source_up,
                   connection_attempts, recent_event_ids, nevents, received,
                   accepted, lastev, threads, order, stopVars, feedVars, classVars, connVars, meterVars>>

\* write_log of the main thread: _write_to_file with record_write, and the end
\* of the with block; first for the partition of the event, then for fs_cli
LeaveWrite ==
    /\ hpc = "none"
    /\ pc \in {"in_write_domain", "in_write_fs_cli"}
    /\ mlock = "free"
    /\ \E now \in Seconds :
          \E domain \in {IF pc = "in_write_domain" THEN extract_domain(Events[lastev.n])
                          ELSE FsCli} :
             \E s \in {WriteLog(SinkState, domain, [id |-> lastev.n, sz |-> 1], {}, now)} :
                /\ Becomes(s)
                /\ last' = LastWrite(s, domain, [id |-> lastev.n, sz |-> 1], last)
                /\ lastev' = IF pc = "in_write_domain"
                             THEN [lastev EXCEPT !.wrote = TRUE,
                                                 !.domain = NormalizeDomain(domain)]
                             ELSE lastev
    /\ lock' = "free"
    /\ pc' = IF pc = "in_write_domain" THEN "write_fs_cli" ELSE "flush"
    /\ UNCHANGED <<buffers, lm_running, calls, faults>>
    /\ UNCHANGED <<running, connection, connected, source_up, connection_attempts,
                   recent_event_ids, nevents, received, accepted, threads, order,
                   stopVars, feedVars, classVars, connVars, meterVars>>

\* run(): the periodic flush is not due
SkipFlush ==
    /\ hpc = "none"
    /\ pc = "flush"
    /\ pc' = "top"
    /\ UNCHANGED <<sinkVars, running, connection, connected, source_up,
                   connection_attempts, recent_event_ids, nevents, received,
                   accepted, lastev, concVars, stopVars, feedVars, classVars, connVars, meterVars>>

\* flush_buffers of the main thread: the body with record_domain, and the end
\* of the with block
LeaveFlush ==
    /\ hpc = "none"
    /\ pc = "in_flush"
    /\ mlock = "free"
    /\ \E now \in Seconds : flush_buffers({}, now)
    /\ lock' = "free"
    /\ pc' = "top"
    /\ UNCHANGED <<calls, running, connection, connected, source_up,
                   connection_attempts, recent_event_ids, nevents, received,
                   accepted, lastev, threads, order, stopVars, feedVars, classVars, connVars, meterVars>>

\* the steps of the main thread in the loop
MainStep ==
    \/ StopLoopStep
    \/ StopReceive
    \/ EnterRecordEvent
    \/ LeaveRecordEvent
    \/ EnterSink
    \/ LeaveWrite
    \/ SkipFlush
    \/ LeaveFlush

\* _metrics_worker: after time.sleep(30), get_metrics enters its with block
ReporterEnter ==
    /\ running
    /\ pc # "exited"
    /\ rpc = "idle"
    /\ mlock = "free"
    /\ mlock' = "reporter"
    /\ rpc' = "in_get_metrics"
    /\ UNCHANGED <<sinkVars, loopVars, concVars, hpc>>
    /\ UNCHANGED feedVars
    /\ UNCHANGED classVars
    /\ UNCHANGED connVars
    /\ UNCHANGED meterVars

\* _metrics_worker: get_metrics leaves its with block
ReporterLeave ==
    /\ pc # "exited"
    /\ rpc = "in_get_metrics"
    /\ mlock' = "free"
    /\ rpc' = "idle"
    /\ UNCHANGED <<sinkVars, loopVars, concVars, hpc>>
    /\ UNCHANGED feedVars
    /\ UNCHANGED classVars
    /\ UNCHANGED connVars
    /\ UNCHANGED meterVars

ReporterStep == ReporterEnter \/ ReporterLeave

\* SIGINT or SIGTERM is delivered: _signal_handler starts on the main thread
SignalDelivered ==
    /\ hpc = "none"
    /\ pc # "exited"
    /\ hpc' = "shutdown"
    /\ UNCHANGED <<sinkVars, loopVars, concVars, mlock, rpc>>
    /\ UNCHANGED feedVars
    /\ UNCHANGED classVars
    /\ UNCHANGED connVars
    /\ UNCHANGED meterVars

\* a shutdown that goes straight to close_all
Mut_ThenDisconnect_skipped == hpc' = "close_all"

\* shutdown(): after self.running = False comes the disconnect
ThenDisconnect == hpc' = "disconnect"

\* shutdown(): self.running = False
HandlerStop ==
    /\ hpc = "shutdown"
    /\ running' = FALSE
    /\ ThenDisconnect
    /\ UNCHANGED <<sinkVars, connection, connected, source_up, connection_attempts,
                   recent_event_ids, pc, nevents, received, accepted, lastev,
                   concVars, mlock, rpc>>
    /\ UNCHANGED feedVars
    /\ UNCHANGED classVars
    /\ UNCHANGED connVars
    /\ UNCHANGED meterVars

\* shutdown(): self.connection.disconnect() when there is a connection that
\* reports connected
HandlerDisconnect ==
    /\ hpc = "disconnect"
    /\ connected' = FALSE
    /\ hpc' = "close_all"
    /\ subscription' = "none"
    /\ UNCHANGED <<sinkVars, running, connection, source_up, connection_attempts,
                   recent_event_ids, pc, nevents, received, accepted, lastev,
                   concVars, mlock, rpc>>
    /\ UNCHANGED feedVars
    /\ UNCHANGED classVars
    /\ UNCHANGED <<lastrecv, due>>
    /\ UNCHANGED meterVars

\* close_all(): self.running = False, then flush_buffers enters its with block
HandlerCloseAll ==
    /\ hpc = "close_all"
    /\ lm_running' = FALSE
    /\ hpc' = "flush_wait"
    /\ UNCHANGED <<file_handles, file_sizes, file_access, buffers, live, rotated,
                   clock, sec, metrics, calls, faults, last, loopVars, concVars,
                   mlock, rpc>>
    /\ UNCHANGED feedVars
    /\ UNCHANGED classVars
    /\ UNCHANGED connVars
    /\ UNCHANGED meterVars

\* the handler takes the sink's lock, in flush_buffers or in close_all
HandlerAcquire ==
    /\ hpc \in {"flush_wait", "close_wait"}
    /\ LockFree
    /\ lock' = "handler"
    /\ hpc' = IF hpc = "flush_wait" THEN "in_flush" ELSE "closing"
    /\ UNCHANGED <<sinkVars, loopVars, threads, order, mlock, rpc>>
    /\ UNCHANGED feedVars
    /\ UNCHANGED classVars
    /\ UNCHANGED connVars
    /\ UNCHANGED meterVars

\* close_all(): the body of flush_buffers with record_domain
HandlerFlush ==
    /\ hpc = "in_flush"
    /\ mlock = "free"
    /\ \E now \in Seconds : flush_buffers({}, now)
    /\ lock' = "free"
    /\ hpc' = "close_wait"
    /\ UNCHANGED <<calls, loopVars, threads, order, mlock, rpc>>
    /\ UNCHANGED feedVars
    /\ UNCHANGED classVars
    /\ UNCHANGED connVars
    /\ UNCHANGED meterVars

\* close_all(): every handle is closed, both maps are cleared
HandlerClose ==
    /\ hpc = "closing"
    /\ file_handles' = {}
    /\ file_access' = << >>
    /\ last' = Last("close_all")
    /\ lock' = "free"
    /\ hpc' = "final_metrics"
    /\ UNCHANGED <<file_sizes, buffers, lm_running, live, rotated, clock, sec,
                   metrics, calls, faults, loopVars, threads, order, mlock, rpc>>
    /\ UNCHANGED feedVars
    /\ UNCHANGED classVars
    /\ UNCHANGED connVars
    /\ UNCHANGED meterVars

\* shutdown(): get_metrics for the final metrics
HandlerMetrics ==
    /\ hpc = "final_metrics"
    /\ mlock = "free"
    /\ hpc' = "exit"
    /\ UNCHANGED <<sinkVars, loopVars, concVars, mlock, rpc>>
    /\ UNCHANGED feedVars
    /\ UNCHANGED classVars
    /\ UNCHANGED connVars
    /\ UNCHANGED meterVars

\* _signal_handler: sys.exit(0)
HandlerExit ==
    /\ hpc = "exit"
    /\ pc' = "exited"
    /\ hpc' = "done"
    /\ UNCHANGED <<sinkVars, running, connection, connected, source_up,
                   connection_attempts, recent_event_ids, nevents, received,
                   accepted, lastev, concVars, mlock, rpc>>
    /\ UNCHANGED feedVars
    /\ UNCHANGED classVars
    /\ UNCHANGED connVars
    /\ UNCHANGED meterVars

\* the steps of _signal_handler
HandlerStep ==
    \/ HandlerStop
    \/ HandlerDisconnect
    \/ HandlerCloseAll
    \/ HandlerAcquire
    \/ HandlerFlush
    \/ HandlerClose
    \/ HandlerMetrics
    \/ HandlerExit

\* the event source becomes reachable, in the runs with a stop signal
StopSourceUp == pc # "exited" /\ hpc = "none" /\ SourceUp

StopNext == MainStep \/ HandlerStep \/ ReporterStep \/ SignalDelivered \/ StopSourceUp

\* every thread that can take a step eventually takes one
StopSpec ==
    /\ Init /\ [][StopNext]_vars
    /\ WF_vars(MainStep) /\ WF_vars(HandlerStep) /\ WF_vars(ReporterStep)

(***************************************************************************)
(* Properties of the sink                                                  *)
(***************************************************************************)
\* the step is a write_log call
WriteStep == calls' = calls + 1 /\ last'.op = "write"

\* size of a live file, 0 for a file that does not exist
LiveSize(files, d) == IF d \in DOMAIN files THEN Size(files[d]) ELSE 0

\* content of a live file, empty for a file that does not exist
LiveContent(files, d) == IF d \in DOMAIN files THEN files[d] ELSE <<>>

\* C1: in every reachable state of the sink the number of open handles is at
\* most MAX_FILE_DESCRIPTORS
C1_OpenHandlesWithinCap == Cardinality(file_handles) <= MAX_FILE_DESCRIPTORS

\* C2: a write to a partition without an open handle, made while the number of
\* open handles equals the cap, closes exactly one handle, and that handle is
\* the one with the oldest last-access time among the open ones
C2_EvictsExactlyTheOldest ==
    [][ ( /\ WriteStep
          /\ last'.domain \notin file_handles
          /\ Cardinality(file_handles) = MAX_FILE_DESCRIPTORS )
        => \E k \in file_handles :
              /\ file_handles \ file_handles' = {k}
              /\ \A e \in file_handles : file_access[k] <= file_access[e] ]_vars

C4_RotationStartsFresh ==
    [][ ( WriteStep /\ last'.did_rename )
        => LET d == last'.domain
           IN  /\ <<d, sec'>> \in DOMAIN rotated'
               /\ rotated'[<<d, sec'>>] = live[d]
               /\ DOMAIN rotated' = DOMAIN rotated \cup {<<d, sec'>>}
               /\ \A n \in DOMAIN rotated : n # <<d, sec'>> => rotated'[n] = rotated[n]
               /\ LiveContent(live', d) = IF last'.failed THEN <<>> ELSE <<last'.line>>
               /\ file_sizes'[d] = LiveSize(live', d) ]_vars

\* a rotation happened and the line of the call is alone in the live file
C4_Witness ==
    /\ last.op = "write" /\ last.did_rename /\ ~last.failed
    /\ live[last.domain] = <<last.line>>
    /\ \E n \in DOMAIN rotated : n[1] = last.domain /\ rotated[n] # <<>>

\* C5: a write_log call in which open or write fails leaves the partition
\* without a handle, counts exactly one error and no written line, and appends
\* nothing; the next write_log call for that partition, when it succeeds, has
\* the handle open again and has appended its own line and nothing else
C5_FailedWriteDropsHandle ==
    [][ /\ ( WriteStep /\ last'.failed )
           => LET d == last'.domain
              IN  /\ d \notin file_handles'
                  /\ metrics'.errors_count = metrics.errors_count + 1
                  /\ metrics'.logs_written = metrics.logs_written
                  /\ LiveContent(live', d) =
                        IF last'.did_rename THEN <<>> ELSE LiveContent(live, d)
        /\ ( WriteStep /\ ~last'.failed )
           => LET d == last'.domain
              IN  /\ d \in file_handles'
                  /\ metrics'.errors_count = metrics.errors_count
                  /\ live'[d] =
                        (IF last'.did_rename THEN <<>> ELSE LiveContent(live, d))
                            \o <<last'.line>> ]_vars

\* a write failed, and the next write for the same partition succeeded
C5_Witness ==
    /\ last.op = "write" /\ last.after_failure /\ ~last.failed
    /\ metrics.errors_count = 1
    /\ last.domain \in file_handles

(***************************************************************************)
(* The collector loop: deduplication and reconnection                      *)
(***************************************************************************)
\* a step in which the loop received an event and process_event handled it
ProcessedStep == nevents' = nevents + 1

\* the event handled by that step
Handled == Events[lastev'.n]

\* the connection object exists and reports connected
Connected == connection = "obj" /\ connected

\* the identifier of the newest line of a partition's live file, 0 if none
NewestLine(files, d) ==
    IF d \in DOMAIN files /\ files[d] # <<>> THEN files[d][Len(files[d])].id ELSE 0

IsLineOfFirstEvent(l) == l.id = 1

\* C7: an event whose (Event-Name, unique id) key is still in the recency
\* window when it arrives is dropped: it is not counted, not classified and
\* not written, the files and the window stay as they were
C7_DuplicateDropped ==
    [][ (ProcessedStep /\ EventId(Handled) # None
                       /\ EventId(Handled) \in Range(recent_event_ids))
        => /\ lastev'.dropped /\ ~lastev'.wrote
           /\ UNCHANGED <<sinkVars, recent_event_ids>> ]_vars

\* the first event arrived a second time and was dropped; its partition holds
\* its line once
C7_Witness ==
    /\ lastev.n = 1 /\ lastev.dropped
    /\ Len(SelectSeq(LiveContent(live, <<"a">>), IsLineOfFirstEvent)) = 1

\* C8 as stated: the window never holds more than DedupWindow keys, and an
\* event that renders a line and whose key is not among the keys of the last
\* DedupWindow events received is not dropped but classified and written
C8_LastReceived ==
    /\ [](Len(recent_event_ids) <= DedupWindow)
    /\ [][ (ProcessedStep /\ RendersLine(Handled)
                          /\ EventId(Handled) \notin Range(received))
           => ~lastev'.dropped /\ lastev'.wrote ]_vars

\* C8, amended: the window never holds more than DedupWindow keys, and an
\* event that renders a line is dropped exactly when its key is among the keys
\* of the last DedupWindow events that were not dropped; otherwise it is
\* counted, classified and handed to the sink for its partition and for fs_cli
C8_LastAccepted ==
    /\ [](Len(recent_event_ids) <= DedupWindow)
    /\ [][ (ProcessedStep /\ RendersLine(Handled))
           => IF EventId(Handled) \in Range(accepted)
              THEN lastev'.dropped
              ELSE /\ ~lastev'.dropped /\ lastev'.wrote
                   /\ lastev'.domain = NormalizeDomain(extract_domain(Handled))
                   /\ metrics'.events_processed = metrics.events_processed + 1
                   /\ last'.op = "write" /\ last'.domain = FsCli
                   /\ last'.line.id = lastev'.n
                   /\ faults' = faults
                      => /\ NewestLine(live', lastev'.domain) = lastev'.n
                         /\ NewestLine(live', FsCli) = lastev'.n ]_vars

\* the window is full, the key of the first event has left it, and the event
\* handled last was written
C8_Witness ==
    /\ Len(recent_event_ids) = DedupWindow
    /\ EventId(Events[1]) \notin Range(recent_event_ids)
    /\ NewestLine(live, <<"a">>) = 1
    /\ lastev.wrote /\ lastev.n # 1

\* the steps that change the attempt counter
C9_Step ==
    /\ (pc = "top" /\ NotConnected /\ pc' # pc
           /\ connection_attempts >= max_connection_attempts)
       => pc' \in {"cooldown", "exited"} /\ UNCHANGED connection_attempts
    /\ (pc = "cooldown" /\ pc' \notin {pc, "exited"})
       => pc' = "top" /\ connection_attempts' = 0
    /\ (pc = "top" /\ pc' = "backoff")
       => connection_attempts' = connection_attempts + 1
    /\ (pc = "top" /\ NotConnected /\ pc' = "recv")
       => connection_attempts' = 0 /\ Connected'
    /\ connection_attempts' # connection_attempts
       => \/ pc = "top" /\ pc' \in {"backoff", "recv"}
          \/ pc = "cooldown" /\ pc' = "top"

\* C9: the attempt counter stays between 0 and the cap and is 0 while
\* connected; with the counter at the cap the loop goes to the cooldown
\* instead of connecting; the cooldown ends with the counter at 0 at the top
\* of the loop; a failed connect adds one, a successful connect resets to 0
C9_AttemptCounter ==
    /\ [](connection_attempts \in 0..max_connection_attempts)
    /\ [](Connected => connection_attempts = 0)
    /\ [][C9_Step]_vars

\* the loop is in the cooldown after max_connection_attempts failures
C9_Witness == pc = "cooldown" /\ connection_attempts = max_connection_attempts

\* C10: without a stop signal the loop keeps making connection attempts
\* while it is not connected, and if the source becomes reachable and stays
\* so the loop gets connected
C10_ReconnectsForever ==
    [](pc # "exited")
    => /\ []<>(Connected \/ pc = "backoff")
       /\ (<>[]source_up => []<>Connected)

\* the source has become reachable while the loop sits in the cooldown
C10_Witness == pc = "cooldown" /\ source_up /\ running /\ ~Connected

(***************************************************************************)
(* The sink under concurrent callers                                       *)
(***************************************************************************)
\* the thread is inside a with block of the sink
InCS(t) == threads[t].pc \in {"prepare", "write", "flush", "close_flush", "closing"}

\* a write call on the partition holds the lock and has not yet written
Pending(d) ==
    \E t \in Threads : threads[t].pc \in {"prepare", "write"} /\ threads[t].domain = d

\* the identifiers of the lines the write calls on a partition have written, in
\* the order in which the calls got the lock
WrittenIds(d) ==
    LET n == IF Pending(d) THEN Len(order[d]) - 1 ELSE Len(order[d])
    IN  [i \in 1..n |-> order[d][i].id]

\* the identifiers of the lines of the partition's live file
LiveIds(d) == [i \in 1..Len(LiveContent(live, d)) |-> LiveContent(live, d)[i].id]

IsSuffix(a, b) ==
    /\ Len(a) <= Len(b)
    /\ \A i \in 1..Len(a) : a[i] = b[Len(b) - Len(a) + i]

HasRotated(d) == \E k \in DOMAIN rotated : k[1] = d

\* C6: a thread inside write, flush or closeAll holds the lock, handles, byte
\* counts and last-access times change only in a step of the thread that holds
\* the lock, and the live file of a partition holds whole lines in the order
\* in which the write calls for it got the lock (all of them until the file
\* is rotated, the newest ones afterwards)
C6_LockedAndOrdered ==
    /\ [](\A t \in Threads : InCS(t) => lock = t)
    /\ [](\A d \in Keys : /\ IsSuffix(LiveIds(d), WrittenIds(d))
                          /\ ~HasRotated(d) => LiveIds(d) = WrittenIds(d))
    /\ [][ <<file_handles, file_sizes, file_access>>' # <<file_handles, file_sizes, file_access>>
           => /\ lock # "free"
              /\ InCS(lock)
              /\ threads'[lock] # threads[lock] ]_vars

\* two threads have written one line each to the same partition, and a third
\* call waits for the lock to close the sink
C6_Witness ==
    \E d \in Keys :
        /\ Len(LiveIds(d)) = 2
        /\ LiveIds(d) = WrittenIds(d)
        /\ order[d][1].by # order[d][2].by
        /\ \E t \in Threads : threads[t].pc = "close_flush_wait"

(***************************************************************************)
(* The collector loop: failures and shutdown                               *)
(***************************************************************************)
\* the positions of the main thread inside the loop of run()
LoopPositions == {"top", "backoff", "cooldown", "recv", "flush"}

\* a step in which connect, the connection test, the processing of an event
\* or a write of the sink failed
FailureStep ==
    \/ pc = "top" /\ pc' = "backoff"
    \/ faults' > faults
    \/ ProcessedStep /\ Handled.raises

\* C11: the loop ends only in a step that ran the shutdown of the stop
\* signal; a step in which connect, the connection test, process_event or a
\* write fails leaves the loop running at one of its positions, and a failure
\* of the connection test, of process_event or of a write is counted
C11_OnlySignalEndsLoop ==
    [][ /\ (pc # "exited" /\ pc' = "exited") => (~running' /\ ~lm_running')
        /\ FailureStep => (pc' \in LoopPositions /\ running' /\ lm_running')
        /\ (pc = "top" /\ faults' > faults)
           => (pc' = "top" /\ metrics'.errors_count = metrics.errors_count + 1)
        /\ (ProcessedStep /\ (Handled.raises \/ (lastev'.wrote /\ last'.failed)))
           => (pc' = "flush" /\ metrics'.errors_count > metrics.errors_count) ]_vars

\* errors were counted for a failed connection test and for an event that
\* could not be processed, and the loop is again waiting for an event
C11_Witness ==
    /\ metrics.errors_count >= 2
    /\ faults > 0
    /\ pc = "recv" /\ running

\* C12: once the stop signal is delivered, the handler gets through the
\* shutdown and the process exits with the sink closed
C12_ShutdownCompletes ==
    (hpc # "none") ~> (pc = "exited" /\ ~lm_running /\ file_handles = {})

\* the positions of the handler after self.running = False
AfterStop ==
    {"disconnect", "close_all", "flush_wait", "in_flush", "close_wait", "closing",
     "final_metrics", "exit", "done"}

\* the positions of the handler after the disconnect
AfterDisconnect == AfterStop \ {"disconnect"}

\* the positions of the handler after close_all has returned
AfterCloseAll == {"final_metrics", "exit", "done"}

\* C13: shutdown goes in order: the running flag is cleared first and from the
\* signal on no event is received or processed, the source is disconnected
\* before the sink starts closing, and the final metrics come only after the
\* sink is flushed and every handle closed
C13_ShutdownOrder ==
    /\ [](hpc \in AfterStop => ~running)
    /\ [](hpc \in AfterDisconnect => ~connected)
    /\ [](hpc \in AfterCloseAll => (~lm_running /\ file_handles = {} /\ lock = "free"))
    /\ [][ /\ hpc # "none"
              => /\ nevents' = nevents
                 /\ recent_event_ids' = recent_event_ids
                 /\ live' = live
                 /\ metrics'.events_processed = metrics.events_processed
           /\ (lm_running /\ ~lm_running') => (~running /\ ~connected)
           /\ (hpc # "none" /\ connected /\ ~connected') => (~running /\ lm_running)
           /\ (pc # "exited" /\ pc' = "exited") => hpc = "exit" ]_vars

C13_Witness ==
    /\ hpc = "done" /\ pc = "exited"
    /\ metrics.events_processed > 0 /\ metrics.logs_written > 0
    /\ ~running /\ ~connected /\ ~lm_running /\ file_handles = {}

\* the events fed so far are three with different keys, of the tenants a.com,
\* b.com and a.com in this order
FedAcomBcomAcom ==
    /\ Len(fed) = 3
    /\ AllEvents[fed[1]].domain_name = Acom
    /\ AllEvents[fed[2]].domain_name = Bcom
    /\ AllEvents[fed[3]].domain_name = Acom
    /\ \A i, j \in 1..3 : i # j => EventId(AllEvents[fed[i]]) # EventId(AllEvents[fed[j]])

\* C14 as stated: after events of a.com, b.com and a.com with a cap of one,
\* the only open handle is that of b.com, and a.com.log holds the two lines of
\* a.com in arrival order
C14_LeavesHandleOfBcom ==
    FedAcomBcomAcom => /\ file_handles = {Bcom}
                       /\ LiveIds(Acom) = <<fed[1], fed[3]>>

\* C14, amended: with a cap of one there is never more than one open handle;
\* after events of a.com, b.com and a.com the only open handle is that of
\* fs_cli, the partition written last, a.com.log holds the two lines of a.com
\* in arrival order and b.com.log the line of b.com
C14_LeavesHandleOfLastWritten ==
    /\ Cardinality(file_handles) <= 1
    /\ (last.op = "write" /\ ~last.failed) => file_handles = {last.domain}
    /\ FedAcomBcomAcom => /\ file_handles = {FsCli}
                          /\ LiveIds(Acom) = <<fed[1], fed[3]>>
                          /\ LiveIds(Bcom) = <<fed[2]>>

C14_Witness ==
    /\ FedAcomBcomAcom
    /\ file_handles = {FsCli}
    /\ LiveIds(Acom) = <<fed[1], fed[3]>>

\* a close_all call that directly follows a close_all call
SecondCloseAll == calls' = calls + 1 /\ last.op = "close_all" /\ last'.op = "close_all"

\* C15: a close_all that directly follows a close_all counts no error, appends
\* nothing to any file and leaves the sink as the first call left it: no
\* handle, no last-access entry, the same files, sizes and buffers, not running
C15_CloseAllIdempotent ==
    [][ SecondCloseAll
        => /\ file_handles = {} /\ file_handles' = {}
           /\ DOMAIN file_access = {} /\ DOMAIN file_access' = {}
           /\ live' = live /\ rotated' = rotated
           /\ file_sizes' = file_sizes /\ buffers' = buffers
           /\ ~lm_running /\ ~lm_running'
           /\ faults' = faults
           /\ metrics'.errors_count = metrics.errors_count
           /\ metrics'.logs_written = metrics.logs_written
           /\ metrics'.bytes_written = metrics.bytes_written ]_vars

\* a line was written, then close_all was called twice
C15_Witness ==
    /\ calls = 3 /\ last.op = "close_all"
    /\ metrics.logs_written = 1 /\ metrics.errors_count = 0
    /\ metrics.domains_count = 0
    /\ file_handles = {} /\ DOMAIN file_access = {}
    /\ \E d \in Keys : LiveContent(live, d) # <<>>

\* C16: when close_all has returned no handle is open, and a write_log call
\* made after it opens no handle and appends to no file
C16_ClosedSinkIgnoresWrites ==
    /\ [](last.op = "close_all" => (file_handles = {} /\ ~lm_running))
    /\ [][ (~lm_running /\ WriteStep)
           => (file_handles' = {} /\ live' = live /\ rotated' = rotated) ]_vars

\* the keys write_log and _write_to_file leave unchanged
IsNormalized(d) == NormalizeDomain(d) = d

\* the call went through _rotate_log, which closes the handle of the partition
Rotation(call) == call.did_rename \/ "rename" \in call.io_errors

\* the domain without its case, its white space and its illegal characters
Canon(domain) == SelectSeq(Lower(domain), KeepChar)

\* C17: a partition key never has two open handles: every handle is kept under
\* a normalised key, domains that differ only in case, white space or
\* illegal characters have the same key, a write_log call touches no handle
\* and no file but that of its key, it opens a handle only when the key has
\* no open one (none before the call, or closed by the rotation of the
\* call), never while the key's handle is open, and a call for a key whose
\* handle is open uses that handle
C17_OneHandlePerKey ==
    /\ [](\A d \in file_handles : IsNormalized(d))
    /\ [](\A r1, r2 \in RawDomains :
             Canon(r1) = Canon(r2) => NormalizeDomain(r1) = NormalizeDomain(r2))
    /\ [](~last.leaked)
    /\ [][ WriteStep
           => LET d == last'.domain
              IN  /\ IsNormalized(d)
                  /\ file_handles' \ {d} \subseteq file_handles
                  /\ \A k \in Keys \ {d} : LiveContent(live', k) = LiveContent(live, k)
                  /\ last'.opened => (d \notin file_handles \/ Rotation(last'))
                  /\ (d \in file_handles /\ ~Rotation(last') /\ ~last'.failed)
                     => (~last'.opened /\ file_handles' = file_handles) ]_vars

\* a second write to the partition a has used the handle the first one opened
C17_Witness ==
    /\ last.op = "write" /\ ~last.opened /\ ~last.failed /\ ~Rotation(last)
    /\ last.domain = <<"a">>
    /\ file_handles = {<<"a">>}
    /\ LiveIds(<<"a">>) = <<1, 1>>

\* a write_log call in which the rename of _rotate_log failed and nothing else
RenameFailedStep == WriteStep /\ last'.io_errors = {"rename"}

\* C18: a write whose rotation fails at the rename is a successful write: no
\* error is raised or counted, nothing is renamed, and the line is appended
\* to the live file as it was, through a newly opened handle
C18_RenameFailureNotFatal ==
    [][ RenameFailedStep
        => LET d == last'.domain
           IN  /\ ~last'.failed /\ ~last'.did_rename
               /\ metrics'.errors_count = metrics.errors_count
               /\ metrics'.logs_written = metrics.logs_written + 1
               /\ rotated' = rotated
               /\ d \in DOMAIN live
               /\ LiveContent(live', d) = LiveContent(live, d) \o <<last'.line>>
               /\ \A k \in Keys \ {d} : LiveContent(live', k) = LiveContent(live, k)
               /\ d \in file_handles' /\ last'.opened ]_vars

C18_Witness ==
    /\ last.op = "write" /\ last.io_errors = {"rename"} /\ ~last.failed
    /\ Len(LiveContent(live, last.domain)) >= 2
    /\ LiveContent(live, last.domain)[Len(LiveContent(live, last.domain))] = last.line
    /\ LiveSize(live, last.domain) >= rotation_size

\* the event with every raising header absent instead
WithoutRaising(event) ==
    [hdr |-> [h \in HeaderNames |-> IF h \in event.bad THEN <<>> ELSE event.hdr[h]],
     bad |-> {}]

\* C19: every call of extract_domain returns a key: a non-empty name that
\* write_log keeps as it is; it is the key of the event in which the headers
\* whose access raises are absent, and every call for the same event and
\* line returns the same key
C19_TotalAndDeterministic ==
    \A i \in 1..Len(ckeys) :
        /\ ckeys[i] # <<>>
        /\ IsNormalized(ckeys[i])
        /\ ckeys[i] = ExtractDomain(WithoutRaising(cevent), cline)
        /\ ckeys[i] = ckeys[1]

\* two calls for an event whose access to domain_name raises although it
\* holds a name: the key comes from further down the chain
C19_Witness ==
    /\ Len(ckeys) = 2
    /\ "domain_name" \in cevent.bad
    /\ cevent.hdr["domain_name"] = Acom
    /\ ckeys[2] = Bcom

\* the event exposes D as its primary domain attribute
Exposes(D) ==
    /\ "domain_name" \notin cevent.bad
    /\ cevent.hdr["domain_name"] = D
    /\ _is_valid_domain(D)

\* lowercase(D) with the illegal file name characters stripped
Cleaned(D) == SelectSeq(Lower(D), KeepChar)

\* C20 as stated: for every valid D, an event that exposes D as domain_name is
\* classified as lowercase(D) without the illegal file name characters
C20_ValidPrimaryDecides ==
    \A D \in PrimaryValues, i \in 1..Len(ckeys) : Exposes(D) => ckeys[i] = Cleaned(D)

\* C20, amended: this holds for every valid D but the literal default in any
\* case, which is skipped: the event is then classified as if domain_name
\* were absent
C20_ValidPrimaryDecidesUnlessDefault ==
    \A D \in PrimaryValues, i \in 1..Len(ckeys) :
        Exposes(D)
        => IF IsDefault(Strip(D))
           THEN ckeys[i] = ExtractDomain([cevent EXCEPT !.hdr["domain_name"] = <<>>], cline)
           ELSE ckeys[i] = Cleaned(D)

\* an event that exposes " B.com" was classified as b.com although other
\* headers and the line name a.com
C20_Witness ==
    /\ ckeys # <<>>
    /\ Exposes(<<" ", "B", ".", "c", "o", "m">>)
    /\ ckeys[1] = Bcom
    /\ cevent.hdr["Caller-ID-Number"] = Ucom
    /\ cline = <<"[", "a", ".", "c", "o", "m", "]">>

(***************************************************************************)
(* C21: the chain of extract_domain, stated attribute by attribute         *)
(***************************************************************************)
\* the attributes in the order in which extract_domain reads them
AttributeOrder == header_candidates \o <<"Caller-ID-Number">> \o sip_headers

\* the key that one attribute yields on its own, <<>> when it yields none
KeyOfAttribute(event, i) ==
    LET val == getHeader(event, AttributeOrder[i])
    IN  IF i <= Len(header_candidates) THEN FromCandidate(val)
        ELSE IF AttributeOrder[i] = "Caller-ID-Number"
             THEN IF Contains(val, AtSign) /\ _is_valid_domain(AfterAt(val))
                  THEN Sanitized(AfterAt(val)) ELSE <<>>
        ELSE IF val # <<>> /\ SipDomainOf(val) # <<>> /\ _is_valid_domain(SipDomainOf(val))
             THEN Sanitized(SipDomainOf(val)) ELSE <<>>

\* the key that one regular expression yields on the line
KeyOfPattern(log_line, n) ==
    LET d == PatternGroup(n, log_line)
    IN  IF d # <<>> /\ _is_valid_domain(d) THEN Sanitized(d) ELSE <<>>

Yielding(event) == { i \in 1..Len(AttributeOrder) : KeyOfAttribute(event, i) # <<>> }

Matching(log_line) == { n \in 1..4 : KeyOfPattern(log_line, n) # <<>> }

First(S) == CHOOSE i \in S : \A j \in S : i <= j

\* C21: the key returned is the one of the first attribute, in the fixed
\* order, that yields a valid key; an attribute that is empty or the literal
\* default yields none; the regular expressions decide, the first matching
\* one first, only when no attribute yields a key; and the key is unknown
\* when neither an attribute nor an expression yields one
C21_FirstMatchWins ==
    /\ \A i \in 1..Len(header_candidates) :
           LET val == getHeader(cevent, header_candidates[i])
           IN  (Strip(val) = <<>> \/ IsDefault(Strip(val))) => i \notin Yielding(cevent)
    /\ \A k \in 1..Len(ckeys) :
           IF Yielding(cevent) # {}
           THEN ckeys[k] = KeyOfAttribute(cevent, First(Yielding(cevent)))
           ELSE IF Matching(cline) # {}
                THEN ckeys[k] = KeyOfPattern(cline, First(Matching(cline)))
                ELSE ckeys[k] = Unknown

\* domain_name holds the literal default, Caller-ID-Number and From both name
\* a host and the line names a third way: the earlier attribute decided
C21_Witness ==
    /\ ckeys # <<>>
    /\ cevent.bad = {}
    /\ IsDefault(cevent.hdr["domain_name"])
    /\ cevent.hdr["Caller-Domain"] = <<>>
    /\ cevent.hdr["Caller-ID-Number"] = Ucom
    /\ cevent.hdr["From"] = SipUcom
    /\ cline = <<"s", "o", "f", "i", "a", "/", "p", "/", "b", ".", "c", "o", "m">>
    /\ ckeys[1] = Acom

\* no attribute yields a key and the line holds a sofia channel: the second
\* regular expression decided
C21_FallbackReached ==
    /\ ckeys # <<>>
    /\ Yielding(cevent) = {}
    /\ Matching(cline) # {}
    /\ First(Matching(cline)) = 2
    /\ ckeys[1] = Bcom

(***************************************************************************)
(* C22: the keep-alive event                                               *)
(***************************************************************************)
\* C22: an event named HEARTBEAT, in any letter case, that process_event
\* handles is not classified and not written: no key is computed for it, no
\* write_log call is made, and the files, the handles and the write counters
\* are as they were
C22_HeartbeatDiscarded ==
    [][ (ProcessedStep /\ Upper(Handled.name) = HEARTBEAT)
        => /\ ~lastev'.wrote
           /\ lastev'.domain = <<>>
           /\ UNCHANGED <<file_handles, file_sizes, file_access, buffers, live,
                          rotated, last>>
           /\ metrics'.logs_written = metrics.logs_written
           /\ metrics'.bytes_written = metrics.bytes_written ]_vars

\* a heartbeat was handled, not as a duplicate, after an event of tenant a
\* had been written: it was counted as processed and left the files alone
C22_Witness ==
    /\ lastev.n = 3 /\ ~lastev.dropped /\ ~lastev.wrote
    /\ Upper(Events[3].name) = HEARTBEAT
    /\ metrics.events_processed = 2
    /\ metrics.logs_written = 2
    /\ LiveContent(live, <<"a">>) # <<>>

(***************************************************************************)
(* C23, C24: the connection states of the loop                             *)
(***************************************************************************)
\* a step by which the loop leaves connecting for connected: connect()
\* returned True and the loop goes on to recvEventTimed
EntersConnected == pc = "top" /\ NotConnected /\ pc' = "recv"

\* C23: the loop enters the connected state only with a connection that is
\* made and a subscription that was accepted
C23_ConnectedOnlyWhenSubscribed ==
    [][ EntersConnected => (connected' /\ subscription' # "none") ]_vars

\* the half of C23 that the code keeps: no connected state without a connection
C23_ConnectedOnlyWhenConnected == [][ EntersConnected => connected' ]_vars

\* C24: a loop that finds the source not connected makes a connect attempt
\* before it calls recvEventTimed again, and so does a loop whose last
\* recvEventTimed call raised
C24_EachConditionReconnects ==
    /\ [][ (pc = "top" /\ NotConnected /\ pc' # "top")
           => (connection_attempts' # connection_attempts \/ connected'
               \/ pc' = "cooldown") ]_vars
    /\ [](pc = "recv" => lastrecv # "raised")

\* the half of C24 that the code keeps: a source that reports not connected
\* is followed by a connect attempt, or by the cooldown when no attempt is left
C24_NotConnectedReconnects ==
    [][ (pc = "top" /\ NotConnected /\ pc' # "top")
        => (connection_attempts' # connection_attempts \/ connected'
            \/ pc' = "cooldown") ]_vars

(***************************************************************************)
(* C27: the periodic flush                                                 *)
(***************************************************************************)
\* C27: whenever the flush interval has elapsed flush_buffers is called,
\* whatever the loop is doing
C27_FlushWheneverDue == due ~> (~due)

\* the half of C27 that the code keeps: a loop that stays connected flushes
C27_FlushWhileConnected == (due /\ [](connected /\ source_up)) ~> (~due)

(***************************************************************************)
(* C25: buffered entries                                                   *)
(***************************************************************************)
\* the identifiers of the lines that the files of a partition hold
OnDisk(files, rot, d) ==
    { LiveContent(files, d)[i].id : i \in 1..Len(LiveContent(files, d)) }
        \cup UNION { { rot[k][i].id : i \in 1..Len(rot[k]) } :
                       k \in { x \in DOMAIN rot : x[1] = d } }

\* the identifiers of the entries in the buffer of a partition
Buffered(bufs, d) == { bufs[d][i].id : i \in 1..Len(bufs[d]) }

C25_FlushWritesWhenNoError ==
    [][ (last'.op = "flush" /\ metrics'.errors_count = metrics.errors_count)
        => \A d \in Keys : Buffered(buffers, d) \subseteq OnDisk(live', rotated', d) ]_vars

(***************************************************************************)
(* C26: the counters under concurrent calls                                *)
(***************************************************************************)
Counters == {"events_processed", "logs_written", "bytes_written", "errors_count"}

\* C26: no step lowers a counter; when no record_ call is in progress each
\* counter is the number (bytes_written: the sum of the sizes) of the calls
\* made; and the dict a get_metrics call returned holds the values the
\* counters had, all together, at one moment of the call
C26_CountersConsistent ==
    /\ [][ \A c \in Counters : metrics'[c] >= metrics[c] ]_vars
    /\ [](mcall.op = "none"
            => /\ metrics.events_processed = issued.record_event
               /\ metrics.logs_written = issued.record_write
               /\ metrics.bytes_written = issued.bytes
               /\ metrics.errors_count = issued.record_error)
    /\ []((snap.at = 0 /\ snap.n > 0) => snap.vals \in snap.moments)

\* a get_metrics call returned while the main thread waited for the lock with
\* its second record_write call: the dict holds the first call as a whole
C26_Witness ==
    /\ snap.at = 0 /\ snap.n = 1
    /\ mcall.op = "record_write" /\ mcall.at = 1
    /\ issued.record_write = 2
    /\ snap.vals.logs_written = 1
    /\ snap.vals.bytes_written = 2

(***************************************************************************)
(* C28: shutdown and a write in progress                                   *)
(***************************************************************************)
\* the main thread is inside the with block of one of its write_log calls
WriteInProgress == pc \in {"in_write_domain", "in_write_fs_cli"}

\* shutdown() has executed its first statement or more
ShutdownRunning == hpc \notin {"none", "shutdown"}

\* C28: shutdown() never runs while a write_log call of the loop is between
\* acquiring and releasing the lock of the sink
C28_NoShutdownDuringWrite == ~(ShutdownRunning /\ WriteInProgress)

(***************************************************************************)
(* C29: the order of sink and source in shutdown()                         *)
(***************************************************************************)
\* the step of shutdown() that disconnects a connected source
Disconnects == hpc = "disconnect" /\ connected /\ ~connected'

\* the step of shutdown() with which close_all starts
SinkStartsClosing == lm_running /\ ~lm_running'

\* C29 as stated: the sink is closed before the source is disconnected
C29_SinkClosedBeforeDisconnect ==
    [][ Disconnects => (~lm_running /\ file_handles = {}) ]_vars

\* C29, amended: the loop is stopped first, the source is disconnected next,
\* while the sink is still open, and the sink is closed last
C29_DisconnectBeforeSinkClose ==
    /\ [][ Disconnects => (~running /\ lm_running) ]_vars
    /\ [][ SinkStartsClosing => (~running /\ ~connected) ]_vars

\* shutdown() has disconnected the source, which is still up, and is about to
\* close the sink, which still holds the handles of the lines written
C29_Witness ==
    /\ hpc = "close_all"
    /\ ~running /\ ~connected /\ source_up /\ connection = "obj"
    /\ lm_running /\ file_handles # {}
    /\ metrics.logs_written > 0

(***************************************************************************)
(* C30: rotation and the data already written                              *)
(***************************************************************************)
\* the rotated files of a partition
RotatedOf(rot, d) == { k \in DOMAIN rot : k[1] = d }

\* the content of the live file of d is kept by the step: it is still the
\* beginning of the live file, or it is the content of a rotated file of d
\* that did not exist before
LiveKept(d) ==
    \/ /\ d \in DOMAIN live'
       /\ Len(live'[d]) >= Len(live[d])
       /\ SubSeq(live'[d], 1, Len(live[d])) = live[d]
    \/ \E k \in RotatedOf(rotated', d) : k \notin DOMAIN rotated /\ rotated'[k] = live[d]

\* C30: no step destroys a line that is in a file: every rotated file stays
\* as it is, the content of every live file stays in the live file or moves to
\* a new rotated file, and each rotation adds one rotated file to the
\* partition, also when the second of the wall clock has not changed
C30_RotationKeepsData ==
    [][ /\ \A k \in DOMAIN rotated : k \in DOMAIN rotated' /\ rotated'[k] = rotated[k]
        /\ \A d \in DOMAIN live : LiveKept(d)
        /\ (WriteStep /\ last'.did_rename)
              => Cardinality(RotatedOf(rotated', last'.domain))
                     = Cardinality(RotatedOf(rotated, last'.domain)) + 1 ]_vars

\* what the code keeps: the same for every step that does not rotate a
\* partition a second time within one second of the wall clock
C30_KeptAcrossSeconds ==
    [][ ~(WriteStep /\ last'.did_rename /\ <<last'.domain, sec'>> \in DOMAIN rotated)
        => /\ \A k \in DOMAIN rotated : k \in DOMAIN rotated' /\ rotated'[k] = rotated[k]
           /\ \A d \in DOMAIN live : LiveKept(d)
           /\ (WriteStep /\ last'.did_rename)
                 => Cardinality(RotatedOf(rotated', last'.domain))
                        = Cardinality(RotatedOf(rotated, last'.domain)) + 1 ]_vars

(***************************************************************************)
(* C31                                                                     *)
(***************************************************************************)
\* the step handles one of the fed events
FedStep == fed' # fed

\* the event the step handles
FedEvent == AllEvents[lastev'.n]

\* the event the step handles was not handled before
FirstArrival == lastev'.n \notin Range(fed)

\* C31: deduplication drops an event only if the same event was handled
\* before: an event that arrives for the first time and renders a line is
\* processed and written, also when it carries the same name as an earlier
\* event and neither Unique-ID nor Event-UUID
C31_DistinctEventsBothWritten ==
    [][ (FedStep /\ FirstArrival /\ RendersLine(FedEvent))
        => (~lastev'.dropped /\ lastev'.wrote) ]_vars

\* what the code keeps: an event that arrives for the first time is dropped
\* only when an event with the same name and the same identifier header, the
\* empty one included, is among the last DedupWindow accepted events
C31_DroppedOnlyOnEqualKey ==
    [][ (FedStep /\ FirstArrival /\ lastev'.dropped)
        => \E i \in 1..Len(fed) :
              /\ AllEvents[fed[i]].name = FedEvent.name
              /\ AllEvents[fed[i]].uid = FedEvent.uid ]_vars

\* two different LOG events without identifier were fed one after the other
C31_Witness ==
    /\ Len(fed) >= 2
    /\ fed[1] # fed[2]
    /\ \A i \in 1..2 : AllEvents[fed[i]].name = LOG /\ AllEvents[fed[i]].uid = <<>>

(***************************************************************************)
(* C32                                                                     *)
(***************************************************************************)
\* C32: after every sink operation the partition keys with a last-access
\* time are exactly the keys with an open handle, so that the key
\* _close_oldest_file picks has an open handle
C32_AccessTracksOpenHandles ==
    /\ DOMAIN file_access = file_handles
    /\ (file_handles # {} /\ DOMAIN file_access # {})
       => OldestDomain(file_access) \in file_handles

\* what the code keeps: every open handle has a last-access time
C32_OpenHandlesHaveAccessTime == file_handles \subseteq DOMAIN file_access

(***************************************************************************)
(* C33                                                                     *)
(***************************************************************************)
\* the step handles an event that is not dropped and renders a line
AcceptedStep == FedStep /\ ~lastev'.dropped /\ RendersLine(FedEvent)

\* the step has appended the line exactly once to the live file of d: to the
\* content it had, or to the empty file a rotation left
AppendedOnce(d, line) ==
    \/ LiveContent(live', d) = LiveContent(live, d) \o <<line>>
    \/ LiveContent(live', d) = <<line>>

\* the two write_log calls of the step: two lines counted, the partition of
\* the event written first, fs_cli written last and holding an open handle
\* within the cap
TwoWritesInOrder ==
    /\ lastev'.wrote
    /\ lastev'.domain = NormalizeDomain(extract_domain(FedEvent))
    /\ metrics'.logs_written = metrics.logs_written + 2
    /\ clock' = clock + 2
    /\ last'.op = "write" /\ last'.domain = FsCli /\ last'.line.id = lastev'.n
    /\ FsCli \in file_handles' /\ file_access'[FsCli] = clock + 1
    /\ Cardinality(file_handles') <= cap
    /\ lastev'.domain \in file_handles'
       => file_access'[lastev'.domain] = IF lastev'.domain = FsCli THEN clock + 1 ELSE clock
    /\ NewestLine(live', FsCli) = lastev'.n

\* C33: every accepted event that renders a line is written by two write_log
\* calls, first to its classified partition and then to fs_cli, both subject
\* to the handle cap and the last-access order; the line is the newest of
\* fs_cli, and it is appended exactly once to the file of the classified
\* partition and exactly once to fs_cli
C33_TwoWritesInOrder ==
    [][ AcceptedStep
        => /\ TwoWritesInOrder
           /\ AppendedOnce(lastev'.domain, [id |-> lastev'.n, sz |-> 1])
           /\ AppendedOnce(FsCli, [id |-> lastev'.n, sz |-> 1]) ]_vars

\* what the code keeps: the two calls are made in this order for every
\* accepted event, and the line is appended once to each file when the
\* classified partition is not fs_cli
C33_OnceWhenClassifiedElsewhere ==
    [][ AcceptedStep
        => /\ TwoWritesInOrder
           /\ lastev'.domain # FsCli
              => /\ AppendedOnce(lastev'.domain, [id |-> lastev'.n, sz |-> 1])
                 /\ AppendedOnce(FsCli, [id |-> lastev'.n, sz |-> 1]) ]_vars

\* an event of tenant a.com was written to a.com and then to fs_cli, after
\* the handle of another partition was closed for it
C33_Witness ==
    /\ lastev.wrote /\ lastev.domain = Acom
    /\ file_handles = {Acom, FsCli}
    /\ file_access[Acom] < file_access[FsCli]
    /\ Bcom \in DOMAIN live
    /\ NewestLine(live, Acom) = lastev.n /\ NewestLine(live, FsCli) = lastev.n

====
